---- MODULE Spec2Model ----
(***************************************************************************)
(* A model of slack2discord.py: the catalog loaders, the reference         *)
(* resolver, the message translator (parse_message), the delivery          *)
(* (send_message) and the import traversal (import_files,                  *)
(* import_slack_directory).                                                *)
(*                                                                         *)
(* A Python str is a sequence of one-character strings.  State variables   *)
(* hold strings run-length encoded (Z), so that a text of several thousand *)
(* characters stays readable in a trace; X decodes.  X(Z(s)) = s.          *)
(* Python's None is NoneStr where a str is expected, NoneList where a list *)
(* is, NoneH where a destination handle is (TLC compares only values of    *)
(* one shape).  A dict is a function whose DOMAIN is its key set; a        *)
(* message or file record is a function from the field names it has.       *)
(***************************************************************************)
EXTENDS Integers, Sequences, FiniteSets, TLC

NoneStr == <<"None">>
NoneList == <<[type |-> "None"]>>
NoneH == [kind |-> "None"]

\* Python truthiness of a str and of a list
TruthyStr(s) == s # NoneStr /\ s # <<>>
TruthyList(l) == l # NoneList /\ l # <<>>

\* ------------------------------------------------------------------------
\* Program constants
\* ------------------------------------------------------------------------
MAX_CHARACTERS == 2000
MAX_EMBED_CHARACTERS == 4096
\* MAX_EMBEDS depends on the installed discord.py: 1 before 2.0, 10 from 2.0.
MAX_EMBEDS(v2) == IF v2 THEN 10 ELSE 1

\* ------------------------------------------------------------------------
\* Bounds of the model
\* ------------------------------------------------------------------------
\* the splitting loop of parse_message is followed for at most MaxBlocks blocks
MaxBlocks == 4
\* an import scenario holds at most MaxMsgs messages
MaxMsgs == 2
\* the import commands that may be issued
MaxCommands == 2
\* a text of the text scenarios is made of at most MaxParts parts
MaxParts == 3
\* an identity-mapping file of the mapping scenarios holds at most MaxEntries entries
MaxEntries == 2
Commands == 1..MaxCommands

\* ------------------------------------------------------------------------
\* Python str operations on sequences of characters
\* ------------------------------------------------------------------------
Min(S) == CHOOSE x \in S : \A y \in S : x <= y
Max(S) == CHOOSE x \in S : \A y \in S : x >= y

\* s[:i] with Python's treatment of a negative or too large index
PySliceTo(s, i) ==
    LET n == Len(s)
        e == IF i < 0 THEN Max({n + i, 0}) ELSE Min({i, n})
    IN  SubSeq(s, 1, e)

\* s[i:]
PySliceFrom(s, i) ==
    LET n == Len(s)
        b == IF i < 0 THEN Max({n + i, 0}) ELSE Min({i, n})
    IN  SubSeq(s, b + 1, n)

\* s.rfind(c) for a single character c: 0-based index of the last
\* occurrence, -1 when there is none
RFind(s, c) ==
    LET P == {i \in 1..Len(s) : s[i] = c}
    IN  IF P = {} THEN -1 ELSE Max(P) - 1

\* sub occurs in s at 1-based position i
OccursAt(s, sub, i) ==
    /\ i >= 1
    /\ i + Len(sub) - 1 <= Len(s)
    /\ SubSeq(s, i, i + Len(sub) - 1) = sub

\* sub in s
Contains(s, sub) == \E i \in 1..Len(s) : OccursAt(s, sub, i)

\* s.endswith(suf)
EndsWith(s, suf) == OccursAt(s, suf, Len(s) - Len(suf) + 1)

\* s.replace(old, new) for a non-empty old: leftmost, non-overlapping
RECURSIVE ReplaceFrom(_, _, _, _)
ReplaceFirst(s, old, new, from, P) ==
    IF P = {} THEN SubSeq(s, from, Len(s))
    ELSE SubSeq(s, from, Min(P) - 1) \o new \o ReplaceFrom(s, old, new, Min(P) + Len(old))

ReplaceFrom(s, old, new, from) ==
    ReplaceFirst(s, old, new, from, {i \in from..Len(s) : OccursAt(s, old, i)})

Replace(s, old, new) == ReplaceFrom(s, old, new, 1)

\* ------------------------------------------------------------------------
\* Run-length encoding of strings held in the state
\* ------------------------------------------------------------------------
\* the end of the run of s that starts at position i: the first position
\* after i that holds another character
run_stop(s, i) ==
    CHOOSE j \in (i + 1)..(Len(s) + 1) :
       /\ j = Len(s) + 1 \/ s[j] # s[i]
       /\ \A k \in i..(j - 1) : s[k] = s[i]

\* the runs of s from position i on
RECURSIVE ZFrom(_, _)
ZFrom(s, i) ==
    IF i > Len(s) THEN <<>>
    ELSE <<<<s[i], run_stop(s, i) - i>>>> \o ZFrom(s, run_stop(s, i))

Z(s) == ZFrom(s, 1)

\* c repeated n times
Rep(c, n) == [i \in 1..n |-> c]

\* the string of a sequence of runs
RECURSIVE X(_)
X(z) == IF z = <<>> THEN <<>> ELSE Rep(z[1][1], z[1][2]) \o X(SubSeq(z, 2, Len(z)))

\* ------------------------------------------------------------------------
\* String literals of the program
\* ------------------------------------------------------------------------
S_everyone_token == <<"<", "!", "e", "v", "e", "r", "y", "o", "n", "e", ">">>
S_everyone == <<"@", "e", "v", "e", "r", "y", "o", "n", "e">>
S_http == <<"h", "t", "t", "p">>
S_unknown_user == <<"<", "u", "n", "k", "n", "o", "w", "n", " ", "u", "s", "e", "r", ">">>
S_unknown_user_ == <<"<", "u", "n", "k", "n", "o", "w", "n", " ", "u", "s", "e", "r", " ">>
S_no_timestamp == <<"<", "n", "o", " ", "t", "i", "m", "e", "s", "t", "a", "m", "p", ">">>
S_Attachments == <<"*", "A", "t", "t", "a", "c", "h", "m", "e", "n", "t", "s", ":", "*">>
S_ThreadOP == <<"[", "T", "h", "r", "e", "a", "d", " ", "O", "P", "]", " ">>
S_Thread == <<"[", "T", "h", "r", "e", "a", "d", "]", " ">>
S_amp == <<"&", "a", "m", "p", ";">>
S_lt == <<"&", "l", "t", ";">>
S_gt == <<"&", "g", "t", ";">>
S_image == <<"i", "m", "a", "g", "e">>

\* ------------------------------------------------------------------------
\* Python dicts, in insertion order: a sequence of <<key, value>> pairs with
\* distinct keys.  NoneDict is None where a dict is expected.
\* ------------------------------------------------------------------------
NoneDict == << <<NoneStr, NoneStr>> >>
TruthyDict(d) == d # NoneDict /\ d # <<>>
DHas(d, k) == \E i \in 1..Len(d) : d[i][1] = k
DGet(d, k) == d[CHOOSE i \in 1..Len(d) : d[i][1] = k][2]
DSet(d, k, v) ==
    IF DHas(d, k)
    THEN [i \in 1..Len(d) |-> IF d[i][1] = k THEN <<k, v>> ELSE d[i]]
    ELSE Append(d, <<k, v>>)
DKeys(d) == {d[i][1] : i \in 1..Len(d)}

\* the outcome of a call: a value, or the exception it raises
Ok(v) == [exc |-> "", val |-> v]
Raise(e) == [exc |-> e, val |-> <<>>]

\* ------------------------------------------------------------------------
\* The destination server (discord.py), as far as the program uses it
\* ------------------------------------------------------------------------
\* Guild.get_member_named(name): "name#1234" is looked up by name and
\* discriminator first, then any name is looked up as a nick or a user name;
\* the first member that matches, or None.
member_by_discriminator(members, name) ==
    IF Len(name) > 5 /\ name[Len(name) - 4] = "#"
    THEN {i \in 1..Len(members) :
            /\ members[i].name = SubSeq(name, 1, Len(name) - 5)
            /\ members[i].discriminator = SubSeq(name, Len(name) - 3, Len(name))}
    ELSE {}

member_by_name(members, name) ==
    {i \in 1..Len(members) : members[i].nick = name \/ members[i].name = name}

first_member(members, byDisc, byName) ==
    IF byDisc # {} THEN members[Min(byDisc)]
    ELSE IF byName # {} THEN members[Min(byName)]
    ELSE NoneH

get_member_named(members, name) ==
    first_member(members, member_by_discriminator(members, name),
                 member_by_name(members, name))

\* Member.mention
mention(member) == <<"<", "@">> \o member.id \o <<">">>

\* discord.utils.get(ctx.guild.channels, name=name)
first_channel(guild_channels, P) ==
    IF P = {} THEN NoneH ELSE guild_channels[Min(P)]

get_channel(guild_channels, name) ==
    first_channel(guild_channels,
                  {i \in 1..Len(guild_channels) : guild_channels[i].name = name})

\* ------------------------------------------------------------------------
\* fill_references
\* ------------------------------------------------------------------------
\* new_str, given the member that get_member_named found (or None)
mention_or_name(discord_user, slack_name) ==
    IF discord_user # NoneH THEN mention(discord_user) ELSE <<"@">> \o slack_name

\* user_new_str with the display name looked up when no member has the
\* mapped handle
user_new_str_falling_back(members, uid, slack_name, slack2discord_uids) ==
    IF /\ TruthyDict(slack2discord_uids) /\ DHas(slack2discord_uids, uid)
       /\ get_member_named(members, DGet(slack2discord_uids, uid)) # NoneH
    THEN mention(get_member_named(members, DGet(slack2discord_uids, uid)))
    ELSE mention_or_name(get_member_named(members, slack_name), slack_name)

\* the replacement of one user's token, new_str
user_new_str(members, uid, slack_name, slack2discord_uids) ==
    IF TruthyDict(slack2discord_uids) /\ DHas(slack2discord_uids, uid)
    THEN mention_or_name(get_member_named(members, DGet(slack2discord_uids, uid)),
                         slack_name)
    ELSE mention_or_name(get_member_named(members, slack_name), slack_name)

\* the body of the loop over users.items() for one user
fill_user(members, message, uid, slack_name, slack2discord_uids) ==
    IF Contains(message, <<"<", "@">> \o uid \o <<">">>) /\ TruthyStr(slack_name)
    THEN Replace(message, <<"<", "@">> \o uid \o <<">">>,
                 user_new_str(members, uid, slack_name, slack2discord_uids))
    ELSE message

\* the loop over users.items(), from entry i on
RECURSIVE fill_users(_, _, _, _, _)
fill_users(members, message, users, slack2discord_uids, i) ==
    IF i > Len(users) THEN message
    ELSE fill_users(members,
                    fill_user(members, message, users[i][1], users[i][2],
                              slack2discord_uids),
                    users, slack2discord_uids, i + 1)

\* new_str of a channel token, given the channel that discord.utils.get found
channel_new_str(channel, name) ==
    IF channel # NoneH THEN <<"<", "#">> \o channel.id \o <<">">> ELSE <<"#">> \o name

\* the body of the loop over channels.items() for one channel
fill_channel(guild_channels, message, cid, name) ==
    IF Contains(message, <<"<", "#">> \o cid \o <<"|">> \o name \o <<">">>)
    THEN Replace(message, <<"<", "#">> \o cid \o <<"|">> \o name \o <<">">>,
                 channel_new_str(get_channel(guild_channels, name), name))
    ELSE message

\* the loop over channels.items(), from entry i on
RECURSIVE fill_channels(_, _, _, _)
fill_channels(guild_channels, message, channels, i) ==
    IF i > Len(channels) THEN message
    ELSE fill_channels(guild_channels,
                       fill_channel(guild_channels, message, channels[i][1],
                                    channels[i][2]),
                       channels, i + 1)

\* the second half of fill_references: the channel tokens
fill_channel_references(guild, message, channels) ==
    IF TruthyDict(channels) THEN fill_channels(guild.channels, message, channels, 1)
    ELSE message

fill_references(guild, message, users, slack2discord_uids, channels) ==
    fill_channel_references(guild,
        IF TruthyDict(users)
        THEN fill_users(guild.members, message, users, slack2discord_uids, 1)
        ELSE message,
        channels)

\* ------------------------------------------------------------------------
\* The catalog loaders.  A root file is a record [status, json]: status is
\* "missing" (no such path in slack_dir), "oserror" (open fails),
\* "malformed" (json.load raises JSONDecodeError) or "ok" (json is the
\* parsed array).
\* ------------------------------------------------------------------------
\* user['profile']['display_name'] if it is truthy, else the real name
display_name(user) ==
    IF TruthyStr(user.display_name) THEN user.display_name ELSE user.real_name

RECURSIVE display_names_loop(_, _, _)
display_names_loop(users_json, i, users) ==
    IF i > Len(users_json) THEN users
    ELSE display_names_loop(users_json, i + 1,
                            DSet(users, users_json[i].id, display_name(users_json[i])))

get_display_names(file) ==
    CASE file.status = "missing" -> NoneDict
      [] file.status = "oserror" -> NoneDict
      [] file.status = "malformed" -> <<>>
      [] OTHER -> display_names_loop(file.json, 1, <<>>)

RECURSIVE channel_names_loop(_, _, _)
channel_names_loop(channels_json, i, channels) ==
    IF i > Len(channels_json) THEN channels
    ELSE channel_names_loop(channels_json, i + 1,
                            DSet(channels, channels_json[i].id, channels_json[i].name))

get_channel_names(file) ==
    CASE file.status = "missing" -> NoneDict
      [] file.status = "oserror" -> NoneDict
      [] file.status = "malformed" -> <<>>
      [] OTHER -> channel_names_loop(file.json, 1, <<>>)

\* possible_slack_ids
possible_slack_ids(users, slack_name) ==
    {i \in 1..Len(users) : users[i][2] = slack_name}

\* discord_name of an entry that has a discord id field
mapped_discord_name(user) ==
    IF TruthyStr(user.discord.id)
    THEN user.discord.name \o <<"#">> \o user.discord.id
    ELSE user.discord.name

\* the second half of the loop body, from discord_name = ... on: the entry's
\* contribution to slack2discord_uids, or the KeyError of a missing discord id
mapping_entry(user, slack_id, slack2discord_uids) ==
    IF "id" \notin DOMAIN user.discord THEN Raise("KeyError")
    ELSE Ok(DSet(slack2discord_uids, slack_id, mapped_discord_name(user)))

\* the loop over the entries, from entry i on: the exception that ends it
\* (or ""), the entries as mutated in memory, slack2discord_uids and dirty
RECURSIVE mapping_loop(_, _, _, _, _)
\* the loop after entry i, whose contribution or KeyError is r
mapping_next(json, users, i, uids, dirty, r) ==
    IF r.exc # ""
    THEN [exc |-> r.exc, json |-> json, uids |-> uids, dirty |-> dirty]
    ELSE mapping_loop(json, users, i + 1, r.val, dirty)

\* lines 525-530 for an entry that named one user: the id is filled in and
\* dirty is set before the discord fields are read
mapping_backfill(json, users, i, uids, slack_id) ==
    mapping_next([json EXCEPT ![i].slack = json[i].slack @@ ("id" :> slack_id)],
                 users, i, uids, TRUE,
                 mapping_entry(json[i], slack_id, uids))

\* lines 511-524: the entry has no slack id; ids are the users of its name
mapping_by_name(json, users, i, uids, dirty, ids) ==
    IF Cardinality(ids) # 1
    THEN mapping_loop(json, users, i + 1, uids, dirty)
    ELSE mapping_backfill(json, users, i, uids, users[CHOOSE k \in ids : TRUE][1])

mapping_loop(json, users, i, uids, dirty) ==
    IF i > Len(json) THEN [exc |-> "", json |-> json, uids |-> uids, dirty |-> dirty]
    ELSE IF "id" \in DOMAIN json[i].slack
    THEN mapping_next(json, users, i, uids, dirty,
                      mapping_entry(json[i], json[i].slack.id, uids))
    ELSE IF "name" \notin DOMAIN json[i].slack
    THEN [exc |-> "KeyError", json |-> json, uids |-> uids, dirty |-> dirty]
    ELSE IF users = NoneDict
    THEN [exc |-> "AttributeError", json |-> json, uids |-> uids, dirty |-> dirty]
    ELSE mapping_by_name(json, users, i, uids, dirty,
                         possible_slack_ids(users, json[i].slack.name))

\* lines 532-545, after the loop ended as l: what is returned or raised, the
\* file afterwards, and whether the file was opened for writing
mapping_save(file, l, writable) ==
    IF l.exc # ""
    THEN [res |-> Raise(l.exc), file |-> file, wrote |-> FALSE]
    ELSE IF l.dirty
    THEN [res |-> Ok(l.uids),
          file |-> IF writable THEN [file EXCEPT !.json = l.json] ELSE file,
          wrote |-> TRUE]
    ELSE [res |-> Ok(l.uids), file |-> file, wrote |-> FALSE]

\* get_slack2discord_user_mapping: what it returns or raises (res), the file
\* afterwards, and whether the file was opened for writing.  writable tells
\* whether open(file_path, mode="w") succeeds.
get_slack2discord_user_mapping(file, users, writable) ==
    CASE file.status = "missing" ->
           [res |-> Ok(NoneDict), file |-> file, wrote |-> FALSE]
      [] file.status = "oserror" ->
           [res |-> Ok(NoneDict), file |-> file, wrote |-> FALSE]
      [] file.status = "malformed" ->
           \* dirty is read before it was ever assigned
           [res |-> Raise("UnboundLocalError"), file |-> file, wrote |-> FALSE]
      [] OTHER ->
           mapping_save(file, mapping_loop(file.json, users, 1, <<>>, FALSE), writable)

\* the catalogs once users and the mapping m are loaded
important_files(root, users, m) ==
    [exc |-> m.res.exc,
     users |-> users,
     slack2discord_uids |-> IF m.res.exc = "" THEN m.res.val ELSE NoneDict,
     channels |-> IF m.res.exc = "" THEN get_channel_names(root.channels) ELSE NoneDict,
     mapfile |-> m.file,
     wrote |-> m.wrote]

\* the mapping is loaded with the users catalog
important_files_users(root, writable, users) ==
    important_files(root, users,
                    get_slack2discord_user_mapping(root.slack2discord_users, users,
                                                   writable))

\* parse_important_files: the three catalogs, or the exception raised
parse_important_files(root, writable) ==
    important_files_users(root, writable, get_display_names(root.users))

\* ------------------------------------------------------------------------
\* The hyperlink rewriting of parse_message: the two re.sub calls
\* ------------------------------------------------------------------------
\* https?: matched at position k: the position after the colon, or 0
scheme_end(s, k) ==
    IF ~OccursAt(s, S_http, k) THEN 0
    ELSE IF OccursAt(s, <<"s", ":">>, k + 4) THEN k + 6
    ELSE IF OccursAt(s, <<":">>, k + 4) THEN k + 5
    ELSE 0

\* the end of the longest run of characters outside stops that starts at b
\* (b - 1 when there is none)
run_end(s, b, stops) ==
    Min({i \in b..Len(s) : s[i] \in stops} \cup {Len(s) + 1}) - 1

\* <(https?:[^|>]+)> matched at position j: the position of the closing >,
\* or 0.  The class [^|>]+ is greedy and what follows it must be >, so the
\* run is the longest one: e is its end, b the position after the colon.
link_close_at(s, b, e) ==
    IF e >= b /\ e + 1 <= Len(s) /\ s[e + 1] = ">" THEN e + 1 ELSE 0

link_close(s, b) ==
    IF b = 0 THEN 0 ELSE link_close_at(s, b, run_end(s, b, {"|", ">"}))

link_end(s, j) ==
    IF j <= Len(s) /\ s[j] = "<" THEN link_close(s, scheme_end(s, j + 1)) ELSE 0

\* re.sub(r'<(https?:[^|>]+)>', r"[\1](\1)", s), from position from on: the
\* leftmost match starts at j and ends at e
RECURSIVE sub_link(_, _)
sub_link_replace(s, from, j, e) ==
    SubSeq(s, from, j - 1) \o <<"[">> \o SubSeq(s, j + 1, e - 1) \o <<"]", "(">>
        \o SubSeq(s, j + 1, e - 1) \o <<")">> \o sub_link(s, e + 1)

sub_link_first(s, from, P) ==
    IF P = {} THEN SubSeq(s, from, Len(s))
    ELSE sub_link_replace(s, from, Min(P), link_end(s, Min(P)))

sub_link(s, from) ==
    sub_link_first(s, from, {j \in from..Len(s) : link_end(s, j) # 0})

\* <(https?:[^|>]+)\|([^>]+)> matched at position j: <<the position of the
\* bar, the position of the closing > >>, or <<0, 0>>.  e1 is the end of the
\* first group, e2 the end of the second.
labelled_close_at(s, e1, e2) ==
    IF e2 >= e1 + 2 /\ e2 + 1 <= Len(s) /\ s[e2 + 1] = ">"
    THEN <<e1 + 1, e2 + 1>> ELSE <<0, 0>>

labelled_bar_at(s, b, e1) ==
    IF e1 >= b /\ e1 + 1 <= Len(s) /\ s[e1 + 1] = "|"
    THEN labelled_close_at(s, e1, run_end(s, e1 + 2, {">"})) ELSE <<0, 0>>

labelled_close(s, b) ==
    IF b = 0 THEN <<0, 0>> ELSE labelled_bar_at(s, b, run_end(s, b, {"|", ">"}))

labelled_link_end(s, j) ==
    IF j <= Len(s) /\ s[j] = "<" THEN labelled_close(s, scheme_end(s, j + 1))
    ELSE <<0, 0>>

\* re.sub(r'<(https?:[^|>]+)\|([^>]+)>', r"[\2](\1)", s), from position from
\* on: the leftmost match starts at j, m is <<bar, closing > >>
RECURSIVE sub_labelled_link(_, _)
sub_labelled_replace(s, from, j, m) ==
    SubSeq(s, from, j - 1) \o <<"[">> \o SubSeq(s, m[1] + 1, m[2] - 1) \o <<"]", "(">>
        \o SubSeq(s, j + 1, m[1] - 1) \o <<")">> \o sub_labelled_link(s, m[2] + 1)

sub_labelled_first(s, from, P) ==
    IF P = {} THEN SubSeq(s, from, Len(s))
    ELSE sub_labelled_replace(s, from, Min(P), labelled_link_end(s, Min(P)))

sub_labelled_link(s, from) ==
    sub_labelled_first(s, from, {j \in from..Len(s) : labelled_link_end(s, j)[2] # 0})

\* msg_hyperlinked
hyperlink(msg) == sub_labelled_link(sub_link(msg, 1), 1)

\* html.unescape, for the entities a Slack export escapes: &amp; &lt; &gt;
\* (one pass: the text an entity produces is not unescaped again)
unescape(msg) == Replace(Replace(Replace(msg, S_lt, <<"<">>), S_gt, <<">">>), S_amp, <<"&">>)

\* ------------------------------------------------------------------------
\* The message translator
\* ------------------------------------------------------------------------
\* datetime.fromtimestamp(float(ts)).strftime('%Y-%m-%d at %H:%M:%S') for a
\* ts of 0..9 seconds, in UTC
strftime(ts) ==
    <<"1", "9", "7", "0", "-", "0", "1", "-", "0", "1", " ", "a", "t", " ",
      "0", "0", ":", "0", "0", ":", "0">> \o ts

parse_timestamp(message) ==
    IF "ts" \in DOMAIN message THEN strftime(message.ts) ELSE S_no_timestamp

\* the name parse_user looks up: the mapped handle of the author, or a
\* placeholder
parse_user_name(message, slack2discord_uids) ==
    IF "user" \notin DOMAIN message THEN S_unknown_user
    ELSE IF DHas(slack2discord_uids, message.user)
    THEN DGet(slack2discord_uids, message.user)
    ELSE S_unknown_user_ \o message.user \o <<">">>

\* parse_user: the author's mention, or the exception raised
parse_user(members, message, slack2discord_uids) ==
    IF "user" \in DOMAIN message /\ slack2discord_uids = NoneDict
    THEN Raise("TypeError")
    ELSE Ok(mention_or_name(
              get_member_named(members, parse_user_name(message, slack2discord_uids)),
              parse_user_name(message, slack2discord_uids)))

\* f"*{timestamp}* **{username}**: {text}"
header(timestamp, username, text) ==
    <<"*">> \o timestamp \o <<"*", " ", "*", "*">> \o username
            \o <<"*", "*", ":", " ">> \o text

parse_text(guild, message, username, users, slack2discord_uids, channels) ==
    IF "text" \in DOMAIN message /\ TruthyStr(message.text)
    THEN header(parse_timestamp(message), username,
                fill_references(guild, message.text, users, slack2discord_uids, channels))
    ELSE NoneStr

\* filename of the discord.File of a file
file_filename(file) ==
    IF EndsWith(file.name, file.filetype) THEN file.name
    ELSE file.name \o file.filetype

\* mimetype.split('/')[0]
mime_major(mimetype) ==
    SubSeq(mimetype, 1, Min({i \in 1..Len(mimetype) : mimetype[i] = "/"}
                            \cup {Len(mimetype) + 1}) - 1)

\* the loop of parse_files over message["files"], from file i on.  A file's
\* fetch field is what requests.get does for its url: "ok", "error_page" (a
\* response that is no file: its body is attached all the same) or
\* "exception" (the request raises).
RECURSIVE parse_files_loop(_, _, _, _)
\* lines 846-864 for one fetched file: the discord.File, and the embed of an
\* image
parse_file(fs, i, files, embeds, discord_file) ==
    IF mime_major(fs[i].mimetype) = S_image
    THEN parse_files_loop(fs, i + 1, Append(files, discord_file),
             Append(embeds, [type |-> "image", title |-> fs[i].title,
                             image |-> discord_file.filename]))
    ELSE parse_files_loop(fs, i + 1, Append(files, discord_file), embeds)

parse_files_loop(fs, i, files, embeds) ==
    IF i > Len(fs) THEN Ok([files |-> files, embeds |-> embeds])
    ELSE IF "url_private" \notin DOMAIN fs[i]
    THEN parse_files_loop(fs, i + 1, files, embeds)
    ELSE IF fs[i].fetch = "exception" THEN Raise("ConnectionError")
    ELSE parse_file(fs, i, files, embeds,
                    [filename |-> file_filename(fs[i]), content |-> fs[i].fetch])

parse_files(message) == parse_files_loop(message.files, 1, <<>>, <<>>)

\* size_policy demoting a text by its length alone
size_policy_by_length(message, username, msg, msg_hyperlinked, f) ==
    [kind |-> IF Len(msg_hyperlinked) > MAX_CHARACTERS THEN "split" ELSE "tail",
     msg_id |-> IF "client_msg_id" \in DOMAIN message THEN message.client_msg_id
                ELSE NoneStr,
     username |-> username,
     msg |-> IF Len(msg_hyperlinked) > MAX_CHARACTERS THEN msg_hyperlinked ELSE msg,
     msg_hyperlinked |-> msg_hyperlinked,
     files |-> f.files,
     embeds |-> f.embeds]

\* lines 914-915: the size policy.  kind is "split" when the text is demoted
\* (msg is msg_hyperlinked and the splitting loop is entered), else "tail"
size_policy(message, username, msg, msg_hyperlinked, f) ==
    [kind |-> IF msg # msg_hyperlinked \/ Len(msg_hyperlinked) > MAX_CHARACTERS
              THEN "split" ELSE "tail",
     msg_id |-> IF "client_msg_id" \in DOMAIN message THEN message.client_msg_id
                ELSE NoneStr,
     username |-> username,
     msg |-> IF msg # msg_hyperlinked \/ Len(msg_hyperlinked) > MAX_CHARACTERS
             THEN msg_hyperlinked ELSE msg,
     msg_hyperlinked |-> msg_hyperlinked,
     files |-> f.files,
     embeds |-> f.embeds]

\* lines 911-912 on the text of lines 903-904
parse_hyperlinks(message, username, msg, f) ==
    size_policy(message, username, msg, hyperlink(msg), f)

\* lines 902-904, once the text msg and the attachments f are parsed
parse_body(message, username, msg, f) ==
    IF f.exc # "" THEN [kind |-> "raise", exc |-> f.exc]
    ELSE IF ~TruthyStr(msg)
    THEN [kind |-> "tail",
          msg_id |-> IF "client_msg_id" \in DOMAIN message THEN message.client_msg_id
                     ELSE NoneStr,
          username |-> username, msg |-> msg, msg_hyperlinked |-> NoneStr,
          files |-> f.val.files, embeds |-> f.val.embeds]
    ELSE parse_hyperlinks(message, username,
                          Replace(unescape(msg), S_everyone_token, S_everyone), f.val)

\* lines 896-900, once the author u is parsed
parse_parts(guild, message, users, slack2discord_uids, channels, u) ==
    IF u.exc # "" THEN [kind |-> "raise", exc |-> u.exc]
    ELSE parse_body(message, u.val,
                    IF "text" \in DOMAIN message
                    THEN parse_text(guild, message, u.val, users, slack2discord_uids,
                                    channels)
                    ELSE NoneStr,
                    IF "files" \in DOMAIN message THEN parse_files(message)
                    ELSE Ok([files |-> NoneList, embeds |-> NoneList]))

\* parse_head without the check of lines 889-891
parse_head_keeping_bots(guild, message, users, slack2discord_uids, channels) ==
    IF "subtype" \in DOMAIN message /\ message.subtype = "channel_join"
    THEN [kind |-> "none"]
    ELSE parse_parts(guild, message, users, slack2discord_uids, channels,
                     parse_user(guild.members, message, slack2discord_uids))

\* parse_message up to the size policy (lines 881-915): kind is "none" (a
\* discarded subtype), "raise", "split" or "tail"
parse_head(guild, message, users, slack2discord_uids, channels) ==
    IF "subtype" \in DOMAIN message /\ message.subtype = "channel_join"
    THEN [kind |-> "none"]
    ELSE IF "subtype" \in DOMAIN message /\ message.subtype = "bot_message"
    THEN [kind |-> "none"]
    ELSE parse_parts(guild, message, users, slack2discord_uids, channels,
                     parse_user(guild.members, message, slack2discord_uids))

\* split_step with the newline of the split point left out of the remainder
split_step_dropping_newline(msg) ==
    IF Len(msg) > MAX_EMBED_CHARACTERS
    THEN [excerpt |-> PySliceTo(msg, RFind(PySliceTo(msg, MAX_EMBED_CHARACTERS), "\n")),
          next_msg |-> PySliceFrom(msg,
                          RFind(PySliceTo(msg, MAX_EMBED_CHARACTERS), "\n") + 1)]
    ELSE [excerpt |-> msg, next_msg |-> NoneStr]

\* one iteration of the splitting loop (lines 917-924): excerpt and next_msg
split_step(msg) ==
    IF Len(msg) > MAX_EMBED_CHARACTERS
    THEN LET newline == RFind(PySliceTo(msg, MAX_EMBED_CHARACTERS), "\n")
         IN  [excerpt |-> PySliceTo(msg, newline), next_msg |-> PySliceFrom(msg, newline)]
    ELSE [excerpt |-> msg, next_msg |-> NoneStr]

\* the end of parse_message (lines 936-947): the text of the payload, after
\* the header of a message of pure attachments was synthesized
tail_msg(message, username, msg, files, embeds) ==
    IF TruthyList(files) /\ ~TruthyStr(msg) /\ ~TruthyList(embeds)
    THEN header(parse_timestamp(message), username, S_Attachments)
    ELSE msg

\* whether parse_message returns None at line 943
tail_none(msg, files, embeds) ==
    ~TruthyStr(msg) /\ ~TruthyList(files) /\ ~TruthyList(embeds)

\* ------------------------------------------------------------------------
\* sorted(fs): Python orders strings by code point
\* ------------------------------------------------------------------------
\* the characters of the model's paths, in code-point order
Ascii == <<".", "/", "0", "1", "2", "3", "4", "5", "6", "7", "8", "9", "_",
           "a", "b", "c", "d", "e", "f", "g", "h", "i", "j", "k", "l", "m",
           "n", "o", "p", "q", "r", "s", "t", "u", "v", "w", "x", "y", "z">>
CodePoint(ch) == CHOOSE i \in 1..Len(Ascii) : Ascii[i] = ch

\* a < b for two strings
StrLess(a, b) ==
    \E k \in 1..(Len(b)) :
       /\ \A i \in 1..(k - 1) : i <= Len(a) /\ a[i] = b[i]
       /\ \/ k = Len(a) + 1
          \/ k <= Len(a) /\ CodePoint(a[k]) < CodePoint(b[k])

RECURSIVE sorted(_)
sorted(fs) ==
    IF fs = <<>> THEN <<>>
    ELSE LET i == CHOOSE i \in 1..Len(fs) : \A j \in 1..Len(fs) : ~StrLess(fs[j], fs[i])
         IN  <<fs[i]>> \o sorted(SubSeq(fs, 1, i - 1) \o SubSeq(fs, i + 1, Len(fs)))

\* ------------------------------------------------------------------------
\* parse_slack_directory.  The disk is a function from the path of each
\* directory to os.listdir of it; a file exists when the listing of its
\* directory names it.  answers are the user's answers to the queries, in
\* order (TRUE for yes).
\* ------------------------------------------------------------------------
S_json == <<".", "j", "s", "o", "n">>
S_users == <<"u", "s", "e", "r", "s">>
S_channels == <<"c", "h", "a", "n", "n", "e", "l", "s">>
S_integration_logs ==
    <<"i", "n", "t", "e", "g", "r", "a", "t", "i", "o", "n", "_", "l", "o", "g", "s">>
S_slack2discord_users ==
    <<"s", "l", "a", "c", "k", "2", "d", "i", "s", "c", "o", "r", "d", "_",
      "u", "s", "e", "r", "s">>

\* slack_root_files followed by user_root_files, in the order of the dicts
root_files_names == <<S_users \o S_json, S_channels \o S_json,
                      S_integration_logs \o S_json, S_slack2discord_users \o S_json>>
slack_root_files == SubSeq(root_files_names, 1, 3)

\* the position of the last separator of a path, or 0
last_sep(path) == Max({0} \cup {i \in 1..Len(path) : path[i] = "/"})

\* a head without its trailing separators, unless it is made of separators
RECURSIVE rstrip_sep(_)
rstrip_sep(head) ==
    IF head = <<>> \/ head[Len(head)] # "/" THEN head
    ELSE rstrip_sep(SubSeq(head, 1, Len(head) - 1))

\* os.path.dirname, os.path.basename and os.path.join
dirname(path) ==
    IF rstrip_sep(SubSeq(path, 1, last_sep(path))) = <<>>
    THEN SubSeq(path, 1, last_sep(path))
    ELSE rstrip_sep(SubSeq(path, 1, last_sep(path)))
basename(path) == SubSeq(path, last_sep(path) + 1, Len(path))
join(a, b) ==
    IF b # <<>> /\ b[1] = "/" THEN b
    ELSE IF a = <<>> \/ a[Len(a)] = "/" THEN a \o b
    ELSE a \o <<"/">> \o b

get_basename(file_path) ==
    IF basename(file_path) # <<>> THEN basename(file_path)
    ELSE basename(dirname(file_path))

\* os.path.splitext(file_path)[0]: the path without the extension of its
\* last component
splitext_root(file_path) ==
    LET dots == {i \in (last_sep(file_path) + 1)..Len(file_path) :
                    /\ file_path[i] = "."
                    /\ \E k \in (last_sep(file_path) + 1)..(i - 1) : file_path[k] # "."}
    IN  IF dots = {} THEN file_path ELSE SubSeq(file_path, 1, Max(dots) - 1)

get_filename(file_path) == get_basename(splitext_root(file_path))

isdir(disk, path) == path \in DOMAIN disk
isfile(disk, path) ==
    /\ path \notin DOMAIN disk
    /\ dirname(path) \in DOMAIN disk
    /\ \E k \in 1..Len(disk[dirname(path)]) : disk[dirname(path)][k] = basename(path)
exists(disk, path) == isdir(disk, path) \/ isfile(disk, path)

\* line 380: one of the slack root files is in the directory
has_root_file(disk, dir) ==
    \E k \in 1..Len(slack_root_files) : exists(disk, join(dir, slack_root_files[k]))

\* the answer to a query
ask(answers) == answers # <<>> /\ answers[1]

\* lines 370-400: the root, the answers left, and whether the user aborted
locate_root_from(disk, file_path, dir, answers) ==
    IF has_root_file(disk, dir)
    THEN [abort |-> FALSE, root |-> dir, answers |-> answers]
    ELSE IF has_root_file(disk, dirname(dir))
    THEN [abort |-> FALSE, root |-> dirname(dir), answers |-> answers]
    ELSE IF ask(answers)
    THEN [abort |-> FALSE, root |-> file_path, answers |-> Tail(answers)]
    ELSE [abort |-> TRUE, root |-> dir, answers |-> answers]

locate_root(disk, file_path, answers) ==
    locate_root_from(disk, file_path,
                     IF isfile(disk, file_path) THEN dirname(file_path) ELSE file_path,
                     answers)

\* lines 403-420: the root files found, from name i on, or the user's abort
RECURSIVE check_root_files(_, _, _, _, _)
check_root_files(disk, root, i, root_files, answers) ==
    IF i > Len(root_files_names) THEN [abort |-> FALSE, root_files |-> root_files]
    ELSE IF exists(disk, join(root, root_files_names[i]))
    THEN check_root_files(disk, root, i + 1,
                          DSet(root_files, get_filename(root_files_names[i]),
                               join(root, root_files_names[i])),
                          answers)
    ELSE IF ask(answers)
    THEN check_root_files(disk, root, i + 1, root_files, Tail(answers))
    ELSE [abort |-> TRUE, root_files |-> root_files]

\* [os.path.join(d, f) for f in os.listdir(d) if f.endswith(".json")]
json_logs(disk, d) ==
    LET fs == SelectSeq(disk[d], LAMBDA f : EndsWith(f, S_json))
    IN  [k \in 1..Len(fs) |-> join(d, fs[k])]

\* the subdirectories of a directory, in the order of its listing
subdirs_of(disk, dir) ==
    LET ns == SelectSeq(disk[dir], LAMBDA n : isdir(disk, join(dir, n)))
    IN  [k \in 1..Len(ns) |-> join(dir, ns[k])]

\* lines 426-427 and 439-440: the history of the directories subdirs
RECURSIVE history_of(_, _, _, _)
history_of(disk, subdirs, i, history) ==
    IF i > Len(subdirs) THEN history
    ELSE history_of(disk, subdirs, i + 1,
                    DSet(history, get_basename(subdirs[i]), json_logs(disk, subdirs[i])))

\* the 1-character strings that iterating over a str yields
chars(str) == [i \in 1..Len(str) |-> <<str[i]>>]

\* lines 424-440: the history, None for a file that is no .json file, or the
\* OSError of os.listdir for a path that is no directory.  The history of a
\* single file maps the channel to the path itself, a str, not to a list.
locate_logs(disk, root, file_path, force_all) ==
    IF force_all
    THEN (IF ~isdir(disk, root) THEN Raise("OSError")
          ELSE Ok([none |-> FALSE,
                   history |-> history_of(disk, subdirs_of(disk, root), 1, <<>>)]))
    ELSE IF isfile(disk, file_path)
    THEN (IF EndsWith(file_path, S_json)
          THEN Ok([none |-> FALSE,
                   history |-> << <<get_basename(dirname(file_path)),
                                    chars(file_path)>> >>])
          ELSE Ok([none |-> TRUE, history |-> <<>>]))
    ELSE IF ~isdir(disk, file_path) THEN Raise("OSError")
    ELSE Ok([none |-> FALSE,
             history |-> history_of(disk, <<file_path>> \o subdirs_of(disk, file_path),
                                    1, <<>>)])

\* lines 442-452: the result for the logs l
slack_dir_of(root, root_files, l) ==
    IF l.exc # "" THEN l
    ELSE IF l.val.none \/ l.val.history = <<>> THEN Ok([none |-> TRUE])
    ELSE Ok([none |-> FALSE, root |-> root, root_files |-> root_files,
             history |-> l.val.history])

\* lines 403-452, once the root is located as r and its files checked as f
parse_slack_directory_checked(disk, file_path, force_all, r, f) ==
    IF f.abort THEN Ok([none |-> TRUE])
    ELSE slack_dir_of(r.root, f.root_files,
                      locate_logs(disk, r.root, file_path, force_all))

\* lines 403-452, once the root is located as r
parse_slack_directory_at(disk, file_path, force_all, r) ==
    IF r.abort THEN Ok([none |-> TRUE])
    ELSE parse_slack_directory_checked(disk, file_path, force_all, r,
             check_root_files(disk, r.root, 1, <<>>, r.answers))

\* parse_slack_directory: the slack_dir, None ([none |-> TRUE]), or the
\* exception raised
parse_slack_directory(disk, file_path, force_all, answers) ==
    parse_slack_directory_at(disk, file_path, force_all,
                             locate_root(disk, file_path, answers))

\* ------------------------------------------------------------------------
\* State
\* ------------------------------------------------------------------------
VARIABLES
    v2,         \* discord.__version__[0] >= "2": native threads; else reply chains
    dirs,       \* the disk: the path of each directory -> its listing
    root,       \* the root files users, slack2discord_users, channels; writable
    mapfile_opens,  \* how often slack2discord_users.json was opened for writing
    logs,       \* path -> channel log file [status, json]
    guild,      \* the destination server: members and channels
    sent,       \* the messages created at the destination, in order
    inflight,   \* the destination calls awaited and not yet returned
    messages,   \* the default value of import_files' parameter messages
    input,      \* per command: slack_dir and match_channel
    cmd,        \* per command: position in import_slack_directory / import_files
    cat,        \* per command: users, slack2discord_uids, channels
    threads,    \* per command: the dict threads of the running import_files
    loc         \* per command: the locals of the message being imported

vars == <<v2, dirs, root, mapfile_opens, logs, guild, sent, inflight, messages,
          input, cmd, cat, threads, loc>>

NoCat == [users |-> NoneDict, slack2discord_uids |-> NoneDict, channels |-> NoneDict]
NoLoc == [msg_id |-> NoneStr, username |-> NoneStr, msg |-> Z(NoneStr),
          msg_hyperlinked |-> Z(NoneStr), files |-> NoneList, embeds |-> NoneList,
          thread_ts |-> NoneStr]

\* command c is running and at position pc
at(c, pc) == c \in DOMAIN cmd /\ cmd[c].pc = pc

\* command c is between two awaits: it runs on the event loop, and no other
\* command runs until it awaits or ends
synchronous(c) == cmd[c].pc \in {"load", "open", "parse", "split", "tail", "parsed"}

\* command c is at position pc and the event loop is free to run it
turn(c, pc) == at(c, pc) /\ \A d \in DOMAIN cmd \ {c} : ~synchronous(d)

\* the log file at a path (a path that names no file cannot be opened)
log_file(path) ==
    IF path \in DOMAIN logs THEN logs[path] ELSE [status |-> "oserror", json |-> <<>>]

\* the message import_files is at
cur_message(c) == log_file(cmd[c].fq[cmd[c].fi]).json[cmd[c].mi]

\* the handle of a message of sent
message_handle(n) == [kind |-> "message", id |-> n]

\* get_or_create_channel: the guild's channels afterwards
ChannelIds == <<"1", "2", "3", "4", "5", "6", "7", "8", "9">>
channels_with(guild_channels, name) ==
    IF get_channel(guild_channels, name) # NoneH THEN guild_channels
    ELSE Append(guild_channels,
                [name |-> name, id |-> <<"9", ChannelIds[Len(guild_channels) + 1]>>])

channel_handle(name) == [kind |-> "channel", name |-> name]

\* ------------------------------------------------------------------------
\* The commands import_all, import_path and import_here
\* ------------------------------------------------------------------------
\* the root file slack_dir["root_files"] names, as the loaders find it
catalog_file(root_files, name) ==
    IF DHas(root_files, name) THEN log_file(DGet(root_files, name))
    ELSE [status |-> "missing", json |-> <<>>]

\* parse_slack_directory returned r to the command
Resolved(c, r) ==
    IF r.exc # ""
    THEN /\ cmd' = [cmd EXCEPT ![c].pc = "crashed", ![c].exc = r.exc]
         /\ UNCHANGED <<input, root>>
    ELSE IF r.val.none
    THEN /\ cmd' = [cmd EXCEPT ![c].pc = IF input[c].command = "import_path"
                                         THEN "aborted" ELSE "idle"]
         /\ input' = [input EXCEPT ![c].slack_dir = "None"]
         /\ root' = root
    ELSE /\ cmd' = [cmd EXCEPT ![c].pc = "idle"]
         /\ input' = [input EXCEPT ![c].slack_dir = "ok",
                                   ![c].history = r.val.history]
         /\ root' = [users |-> catalog_file(r.val.root_files, S_users),
                     slack2discord_users |->
                         catalog_file(r.val.root_files, S_slack2discord_users),
                     channels |-> catalog_file(r.val.root_files, S_channels),
                     writable |-> root.writable]

\* lines 1128, 1147-1150 and 1173: the command parses the path it is given;
\* import_all does so with force_all, and import_path returns on None
Resolve(c) ==
    /\ turn(c, "given")
    /\ Resolved(c, parse_slack_directory(dirs, input[c].path,
                                         input[c].command = "import_all",
                                         input[c].answers))
    /\ UNCHANGED <<v2, dirs, mapfile_opens, logs, guild, sent, inflight, messages,
                   cat, threads, loc>>

\* ------------------------------------------------------------------------
\* import_slack_directory
\* ------------------------------------------------------------------------
\* lines 1086-1094: the checks that abort the import
Start(c) ==
    /\ turn(c, "idle")
    /\ cmd' = [cmd EXCEPT ![c].pc =
                 IF input[c].slack_dir = "None" \/ input[c].history = <<>> THEN "aborted"
                 ELSE IF input[c].match_channel THEN "precreate" ELSE "load",
               ![c].ci = 1]
    /\ UNCHANGED <<v2, dirs, root, mapfile_opens, logs, guild, sent, inflight, messages,
                   input, cat, threads, loc>>

\* lines 1095-1097: one iteration of the loop that creates missing channels
PreCreate(c) ==
    /\ turn(c, "precreate")
    /\ guild' = [guild EXCEPT !.channels =
                   channels_with(guild.channels, input[c].history[cmd[c].ci][1])]
    /\ cmd' = IF cmd[c].ci < Len(input[c].history)
              THEN [cmd EXCEPT ![c].ci = @ + 1]
              ELSE [cmd EXCEPT ![c].pc = "load"]
    /\ UNCHANGED <<v2, dirs, root, mapfile_opens, logs, sent, inflight, messages,
                   input, cat, threads, loc>>

\* the catalogs r become the command's
Loaded(c, r) ==
    /\ root' = [root EXCEPT !.slack2discord_users = r.mapfile]
    /\ mapfile_opens' = mapfile_opens + (IF r.wrote THEN 1 ELSE 0)
    /\ cat' = [cat EXCEPT ![c] = [users |-> r.users,
                                  slack2discord_uids |-> r.slack2discord_uids,
                                  channels |-> r.channels]]
    /\ cmd' = IF r.exc # ""
              THEN [cmd EXCEPT ![c].pc = "crashed", ![c].exc = r.exc]
              ELSE [cmd EXCEPT ![c].pc = "channel", ![c].ci = 1]

\* line 1100: parse_important_files
Load(c) ==
    /\ turn(c, "load")
    /\ Loaded(c, parse_important_files(root, root.writable))
    /\ UNCHANGED <<v2, dirs, logs, guild, sent, inflight, messages, input, threads, loc>>

\* lines 1101-1105 and 1021-1022: the next channel of the history, its
\* context, and the start of import_files with a fresh threads dict
EnterChannel(c) ==
    /\ turn(c, "channel")
    /\ IF cmd[c].ci > Len(input[c].history)
       THEN /\ cmd' = [cmd EXCEPT ![c].pc = "done"]
            /\ UNCHANGED <<guild, threads>>
       ELSE LET ch == input[c].history[cmd[c].ci][1]
                fs == input[c].history[cmd[c].ci][2]
            IN  /\ guild' = IF input[c].match_channel
                            THEN [guild EXCEPT !.channels = channels_with(guild.channels, ch)]
                            ELSE guild
                /\ cmd' = [cmd EXCEPT ![c].pc = "open",
                                      ![c].ctx = IF input[c].match_channel
                                                 THEN channel_handle(ch) ELSE @,
                                      ![c].fq = sorted(fs), ![c].fi = 1, ![c].mi = 1]
                /\ threads' = [threads EXCEPT ![c] = <<>>]
    /\ UNCHANGED <<v2, dirs, root, mapfile_opens, logs, sent, inflight, messages,
                   input, cat, loc>>

\* ------------------------------------------------------------------------
\* import_files
\* ------------------------------------------------------------------------
\* OpenFile with a file that cannot be loaded ending the channel import
OpenFile_leaving_channel(c) ==
    /\ turn(c, "open")
    /\ cmd' = IF cmd[c].fi > Len(cmd[c].fq)
                 \/ log_file(cmd[c].fq[cmd[c].fi]).status # "ok"
              THEN [cmd EXCEPT ![c].pc = "channel", ![c].ci = @ + 1, ![c].fq = <<>>,
                               ![c].fi = 1]
              ELSE [cmd EXCEPT ![c].pc = "parse", ![c].mi = 1]
    /\ UNCHANGED <<v2, dirs, root, mapfile_opens, logs, guild, sent, inflight, messages,
                   input, cat, threads, loc>>

\* lines 1022-1026 and 1077-1082: open and load the next log file; a file
\* that cannot be opened or parsed is skipped.  After the last file
\* import_files returns.
OpenFile(c) ==
    /\ turn(c, "open")
    /\ cmd' = IF cmd[c].fi > Len(cmd[c].fq)
              THEN [cmd EXCEPT ![c].pc = "channel", ![c].ci = @ + 1, ![c].fq = <<>>,
                               ![c].fi = 1]
              ELSE IF log_file(cmd[c].fq[cmd[c].fi]).status = "ok"
              THEN [cmd EXCEPT ![c].pc = "parse", ![c].mi = 1]
              ELSE [cmd EXCEPT ![c].fi = @ + 1]
    /\ UNCHANGED <<v2, dirs, root, mapfile_opens, logs, guild, sent, inflight, messages,
                   input, cat, threads, loc>>

\* what import_files does when it is done with a message: the next one
next_message(c) == [cmd EXCEPT ![c].pc = "parse", ![c].mi = @ + 1]

\* parse_message has come to its size policy as p
Parsed(c, p) ==
    CASE p.kind = "none" ->
           /\ cmd' = next_message(c)
           /\ loc' = loc
      [] p.kind = "raise" ->
           \* the exceptions of requests are OSErrors: line 1077 catches them
           \* and import_files goes on with the next file
           /\ cmd' = IF p.exc = "ConnectionError"
                     THEN [cmd EXCEPT ![c].pc = "open", ![c].fi = @ + 1, ![c].mi = 1]
                     ELSE [cmd EXCEPT ![c].pc = "crashed", ![c].exc = p.exc]
           /\ loc' = loc
      [] OTHER ->
           /\ cmd' = [cmd EXCEPT ![c].pc = p.kind]
           /\ loc' = [loc EXCEPT ![c] =
                        [msg_id |-> p.msg_id, username |-> p.username,
                         msg |-> Z(p.msg),
                         msg_hyperlinked |-> Z(p.msg_hyperlinked),
                         files |-> p.files, embeds |-> p.embeds,
                         thread_ts |-> NoneStr]]

\* lines 1026-1028: the next message of the file, and parse_message on it up
\* to its size policy
Parse(c) ==
    /\ turn(c, "parse")
    /\ IF cmd[c].mi > Len(log_file(cmd[c].fq[cmd[c].fi]).json)
       THEN /\ cmd' = [cmd EXCEPT ![c].pc = "open", ![c].fi = @ + 1, ![c].mi = 1]
            /\ loc' = loc
       ELSE Parsed(c, parse_head(guild, cur_message(c), cat[c].users,
                                 cat[c].slack2discord_uids, cat[c].channels))
    /\ UNCHANGED <<v2, dirs, root, mapfile_opens, logs, guild, sent, inflight, messages,
                   input, cat, threads>>

\* the rich blocks of a list of embeds that carry text
text_blocks(embeds) ==
    IF embeds = NoneList THEN <<>> ELSE SelectSeq(embeds, LAMBDA e : e.type = "rich")

\* lines 916-933: one iteration of the loop that splits the demoted text
\* into rich blocks
Split(c) ==
    /\ turn(c, "split")
    /\ Len(text_blocks(loc[c].embeds)) < MaxBlocks
    /\ LET r == split_step(X(loc[c].msg))
           embeds == IF TruthyList(loc[c].embeds) THEN loc[c].embeds ELSE <<>>
       IN  /\ loc' = [loc EXCEPT ![c].msg = Z(r.next_msg),
                                 ![c].embeds = Append(embeds,
                                     [type |-> "rich", description |-> Z(r.excerpt)])]
           /\ cmd' = IF TruthyStr(r.next_msg) THEN cmd
                     ELSE [cmd EXCEPT ![c].pc = "tail"]
    /\ UNCHANGED <<v2, dirs, root, mapfile_opens, logs, guild, sent, inflight, messages,
                   input, cat, threads>>

\* lines 935-947 and 1029-1032: the end of parse_message.  A message that
\* resolved to nothing is ignored; else the payload is in loc.
Finish(c) ==
    /\ turn(c, "tail")
    /\ LET l == loc[c]
           msg == tail_msg(cur_message(c), l.username, X(l.msg), l.files, l.embeds)
       IN  IF tail_none(msg, l.files, l.embeds)
           THEN /\ cmd' = next_message(c)
                /\ loc' = [loc EXCEPT ![c] = NoLoc]
           ELSE /\ cmd' = [cmd EXCEPT ![c].pc = "parsed"]
                /\ loc' = [loc EXCEPT ![c].msg = Z(msg),
                                      ![c].thread_ts =
                                         IF "thread_ts" \in DOMAIN cur_message(c)
                                         THEN cur_message(c).thread_ts ELSE NoneStr]
    /\ UNCHANGED <<v2, dirs, root, mapfile_opens, logs, guild, sent, inflight, messages,
                   input, cat, threads>>

\* send_message (lines 978-992) up to its ctx.send: the call it makes.  The
\* call carries reference=ref only in the branch without embeds and files,
\* and only that branch sleeps THROTTLE_TIME_SECONDS after the send.
send_message(c, ctx, msg, ref, embeds, files) ==
    IF ~TruthyList(embeds) /\ ~TruthyList(files)
    THEN [cmd |-> c, op |-> "send", ctx |-> ctx, content |-> Z(msg), reference |-> ref,
          embeds |-> NoneList, files |-> NoneList, form |-> "text", throttled |-> TRUE]
    ELSE [cmd |-> c, op |-> "send", ctx |-> ctx, content |-> Z(msg), reference |-> NoneH,
          embeds |-> embeds, files |-> files,
          form |-> IF TruthyList(files) /\ TruthyList(embeds)
                      /\ Len(embeds) = 1 /\ Len(files) = 1
                   THEN "file_embed" ELSE "files_embeds",
          throttled |-> FALSE]

\* lines 1032-1055: the thread prefix, the context and the reply reference of
\* the message, and the call of send_message, up to the await of ctx.send.
\* prefix + msg raises TypeError when msg is None.
Deliver(c) ==
    /\ turn(c, "parsed")
    /\ LET l == loc[c]
           threaded == TruthyStr(l.thread_ts)
           known == threaded /\ DHas(threads[c], l.thread_ts)
           prefix == IF known /\ ~v2 THEN S_Thread ELSE S_ThreadOP
           thread_owner == IF known /\ ~v2 THEN DGet(threads[c], l.thread_ts) ELSE NoneH
           context == IF known /\ v2 THEN DGet(threads[c], l.thread_ts) ELSE cmd[c].ctx
           msg == IF threaded /\ ~v2 THEN prefix \o X(l.msg) ELSE X(l.msg)
       IN  IF threaded /\ ~v2 /\ X(l.msg) = NoneStr
           THEN /\ cmd' = [cmd EXCEPT ![c].pc = "crashed", ![c].exc = "TypeError"]
                /\ UNCHANGED <<inflight, loc>>
           ELSE /\ cmd' = [cmd EXCEPT ![c].pc = "await_send"]
                /\ loc' = [loc EXCEPT ![c].msg = Z(msg)]
                /\ inflight' = inflight \cup
                      {send_message(c, context, msg, thread_owner,
                                    IF TruthyList(l.embeds) THEN l.embeds ELSE NoneList,
                                    IF TruthyList(l.files) THEN l.files ELSE NoneList)}
    /\ UNCHANGED <<v2, dirs, root, mapfile_opens, logs, guild, sent, messages,
                   input, cat, threads>>

\* after_send with the anchor of a key set anew by every message bearing it
after_send_anchoring_anew(c, message) ==
    IF ~TruthyStr(loc[c].thread_ts) THEN "next"
    ELSE IF v2 THEN (IF ~DHas(threads[c], loc[c].thread_ts) THEN "create_thread"
                     ELSE "archive")
    ELSE "anchor"

\* what lines 1058-1069 do with the thread key of a message once it is sent
after_send(c, message) ==
    LET T == loc[c].thread_ts
    IN  IF ~TruthyStr(T) THEN "next"
        ELSE IF ~DHas(threads[c], T) THEN (IF v2 THEN "create_thread" ELSE "anchor")
        ELSE IF v2 THEN "archive" ELSE "next"

\* ctx.send returns: the message exists at the destination; lines 1056-1069
\* up to the next await
SendReturn(c) ==
    /\ turn(c, "await_send")
    /\ \E call \in inflight :
         /\ call.cmd = c /\ call.op = "send"
         /\ LET message == message_handle(Len(sent) + 1)
                then == after_send(c, message)
            IN  /\ sent' = Append(sent,
                      [cmd |-> c, ci |-> cmd[c].ci,
                       src |-> <<cmd[c].fq[cmd[c].fi], cmd[c].mi>>,
                       ctx |-> call.ctx, content |-> call.content,
                       reference |-> call.reference, embeds |-> call.embeds,
                       files |-> call.files, form |-> call.form,
                       throttled |-> call.throttled])
                /\ guild' = [guild EXCEPT !.archived = @ \ {call.ctx}]
                /\ messages' = DSet(messages, loc[c].msg_id, message)
                /\ threads' = IF then = "anchor"
                              THEN [threads EXCEPT ![c] = DSet(@, loc[c].thread_ts, message)]
                              ELSE threads
                /\ inflight' = (inflight \ {call}) \cup
                      (CASE then = "create_thread" ->
                              {[cmd |-> c, op |-> "create_thread", message |-> message]}
                         [] then = "archive" ->
                              {[cmd |-> c, op |-> "edit",
                                thread |-> DGet(threads[c], loc[c].thread_ts)]}
                         [] OTHER -> {})
                /\ cmd' = CASE then = "create_thread" ->
                                 [cmd EXCEPT ![c].pc = "await_create_thread"]
                            [] then = "archive" -> [cmd EXCEPT ![c].pc = "await_archive"]
                            [] OTHER -> next_message(c)
                /\ loc' = IF then \in {"create_thread", "archive"} THEN loc
                          ELSE [loc EXCEPT ![c] = NoLoc]
    /\ UNCHANGED <<v2, dirs, root, mapfile_opens, logs, input, cat>>

\* message.create_thread returns (line 1066): the thread is stored, and
\* line 1069 archives it
CreateThreadReturn(c) ==
    /\ turn(c, "await_create_thread")
    /\ \E call \in inflight :
         /\ call.cmd = c /\ call.op = "create_thread"
         /\ LET thread == [kind |-> "thread", id |-> call.message.id]
            IN  /\ threads' = [threads EXCEPT ![c] = DSet(@, loc[c].thread_ts, thread)]
                /\ inflight' = (inflight \ {call}) \cup
                                 {[cmd |-> c, op |-> "edit", thread |-> thread]}
    /\ cmd' = [cmd EXCEPT ![c].pc = "await_archive"]
    /\ UNCHANGED <<v2, dirs, root, mapfile_opens, logs, guild, sent, messages, input, cat, loc>>

\* threads[thread_ts].edit(archived=True) returns (line 1069)
ArchiveReturn(c) ==
    /\ turn(c, "await_archive")
    /\ \E call \in inflight :
         /\ call.cmd = c /\ call.op = "edit"
         /\ guild' = [guild EXCEPT !.archived = @ \cup {call.thread}]
         /\ inflight' = inflight \ {call}
    /\ cmd' = next_message(c)
    /\ loc' = [loc EXCEPT ![c] = NoLoc]
    /\ UNCHANGED <<v2, dirs, root, mapfile_opens, logs, sent, messages, input, cat, threads>>

Next ==
    \E c \in Commands :
       \/ Resolve(c)
       \/ Start(c)
       \/ PreCreate(c)
       \/ Load(c)
       \/ EnterChannel(c)
       \/ OpenFile(c)
       \/ Parse(c)
       \/ Split(c)
       \/ Finish(c)
       \/ Deliver(c)
       \/ SendReturn(c)
       \/ CreateThreadReturn(c)
       \/ ArchiveReturn(c)

\* ------------------------------------------------------------------------
\* Inputs: the export, the destination server and the command
\* ------------------------------------------------------------------------
\* the sequences over S of length at most n
SeqsUpTo(S, n) == UNION {[1..k -> S] : k \in 0..n}

U1 == <<"U", "1">>
U2 == <<"U", "2">>
al == <<"a", "l">>
bo == <<"b", "o">>
T1 == <<"5">>
T2 == <<"6">>

\* members of the destination server
MemberAl == [name |-> al, nick |-> NoneStr, discriminator |-> <<"0", "0", "0", "1">>,
             id |-> <<"7">>]
MemberBo == [name |-> bo, nick |-> NoneStr, discriminator |-> <<"0", "0", "0", "2">>,
             id |-> <<"8">>]

\* the guild before the import: one text channel, where the command is given
Guild(members) == [members |-> members,
                   channels |-> <<[name |-> <<"d">>, id |-> <<"9", "0">>]>>,
                   archived |-> {}]

OkFile(json) == [status |-> "ok", json |-> json]
BadFile(status) == [status |-> status, json |-> <<>>]

\* root files of an export whose catalogs are complete
UsersJson == <<[id |-> U1, display_name |-> al, real_name |-> <<"A">>],
               [id |-> U2, display_name |-> <<>>, real_name |-> bo]>>
MapJson == <<[slack |-> [id |-> U1, name |-> al],
              discord |-> [name |-> al, id |-> <<"0", "0", "0", "1">>]]>>
ChannelsJson == <<[id |-> <<"C", "1">>, name |-> <<"d">>]>>
RootOk == [users |-> OkFile(UsersJson), slack2discord_users |-> OkFile(MapJson),
           channels |-> OkFile(ChannelsJson), writable |-> TRUE]
\* the same export without slack2discord_users.json
RootNoMap == [RootOk EXCEPT !.slack2discord_users = BadFile("missing")]

\* files of messages
FilePdf == [name |-> <<"f">>, filetype |-> <<"p", "d", "f">>,
            mimetype |-> <<"a", "/", "p">>, title |-> <<"f">>,
            url_private |-> <<"u">>, fetch |-> "ok"]
FilePng == [name |-> <<"g", "p", "n", "g">>, filetype |-> <<"p", "n", "g">>,
            mimetype |-> <<"i", "m", "a", "g", "e", "/", "p">>, title |-> <<"g">>,
            url_private |-> <<"v">>, fetch |-> "ok"]
FileNoUrl == [name |-> <<"n">>, filetype |-> <<"p", "d", "f">>,
              mimetype |-> <<"a", "/", "p">>, title |-> <<"n">>]

\* texts
TextHi == <<"h", "i">>
TextLink == <<"<", "h", "t", "t", "p", ":", "a", ">">>

\* messages of a channel log
MsgText == [user |-> U1, ts |-> <<"1">>, text |-> TextHi, client_msg_id |-> <<"1">>]
MsgThread == [user |-> U1, ts |-> <<"2">>, text |-> TextHi, client_msg_id |-> <<"2">>,
              thread_ts |-> T1]
MsgThread2 == [user |-> U2, ts |-> <<"3">>, text |-> TextHi, thread_ts |-> T2]
MsgLinkThread == [user |-> U1, ts |-> <<"4">>, text |-> TextLink,
                  client_msg_id |-> <<"1">>, thread_ts |-> T1]
MsgFileThread == [user |-> U1, ts |-> <<"5">>, files |-> <<FilePdf>>, thread_ts |-> T1]
MsgImage == [user |-> U1, ts |-> <<"6">>, files |-> <<FilePng, FilePdf>>]
MsgFiles == [user |-> U1, ts |-> <<"6">>, files |-> <<FileNoUrl, FilePdf>>]
MsgJoin == [subtype |-> "channel_join", user |-> U1, ts |-> <<"7">>, text |-> TextHi,
            files |-> <<FilePdf>>, client_msg_id |-> <<"3">>, thread_ts |-> T1]
MsgBot == [subtype |-> "bot_message", ts |-> <<"8">>, text |-> TextLink,
           thread_ts |-> T2]
MsgEmpty == [user |-> U1, ts |-> <<"9">>, files |-> <<FileNoUrl>>]

MessagePool == {MsgText, MsgThread, MsgThread2, MsgLinkThread, MsgFileThread,
                MsgImage, MsgFiles, MsgJoin, MsgBot, MsgEmpty}

\* paths of channel logs
PathA1 == <<"a", "/", "1">>
PathA2 == <<"a", "/", "2">>
PathA10 == <<"a", "/", "1", "0">>
PathB1 == <<"b", "/", "1">>

\* the ways the messages ms of an export lie in its channels and files
\* one channel, one file, imported into the channel of the command
LayoutHere(ms) ==
    [logs |-> (PathA1 :> OkFile(ms)),
     input |-> [slack_dir |-> "ok", match_channel |-> FALSE,
                history |-> << <<<<"a">>, <<PathA1>>>> >>]]
\* one channel, a file that is no JSON, then two files listed out of order
LayoutFiles(ms) ==
    [logs |-> (PathA1 :> BadFile("malformed")) @@ (PathA10 :> OkFile(PySliceTo(ms, 1)))
                @@ (PathA2 :> OkFile(PySliceFrom(ms, 1))),
     input |-> [slack_dir |-> "ok", match_channel |-> TRUE,
                history |-> << <<<<"a">>, <<PathA2, PathA10, PathA1>>>> >>]]
\* two channels, one file each; the second channel names a file that is gone
LayoutChannels(ms) ==
    [logs |-> (PathA1 :> OkFile(PySliceTo(ms, 1)))
                @@ (PathB1 :> OkFile(PySliceFrom(ms, 1))),
     input |-> [slack_dir |-> "ok", match_channel |-> TRUE,
                history |-> << <<<<"a">>, <<PathA1>>>>, <<<<"b">>, <<PathA2, PathB1>>>> >>]]

Layouts(ms) == {LayoutHere(ms), LayoutFiles(ms), LayoutChannels(ms)}

\* a scenario: the build, the export and the destination
Scenario(version2, rootfiles, members, layout) ==
    [v2 |-> version2, root |-> rootfiles, members |-> members,
     logs |-> layout.logs, input |-> layout.input, dirs |-> <<>>, pc |-> "idle",
     commands |-> 1]

\* the imports of up to MaxMsgs messages of the pool
ImportScenarios ==
    {Scenario(version2, RootOk, <<MemberAl>>, layout) :
        version2 \in BOOLEAN,
        layout \in UNION {Layouts(ms) : ms \in SeqsUpTo(MessagePool, MaxMsgs)}}
    \cup
    {Scenario(version2, RootNoMap, <<MemberAl>>, LayoutHere(ms)) :
        version2 \in BOOLEAN, ms \in SeqsUpTo(MessagePool, 1)}
    \cup
    {Scenario(TRUE, RootOk, <<>>, [LayoutHere(<<>>) EXCEPT !.input.slack_dir = "None"])}

\* texts made of parts: short ones, a newline, a link, and runs that bring the
\* text with its header (35 characters) to MAX_CHARACTERS and to
\* MAX_EMBED_CHARACTERS
HeaderLen == Len(header(strftime(<<"1">>), mention(MemberAl), <<>>))
TextParts == {<<"a">>, <<"\n">>, TextLink, Rep("a", MAX_CHARACTERS - HeaderLen),
              Rep("a", MAX_EMBED_CHARACTERS - HeaderLen)}

RECURSIVE Concat(_)
Concat(parts) == IF parts = <<>> THEN <<>> ELSE parts[1] \o Concat(SubSeq(parts, 2, Len(parts)))

MsgOfText(t) == [user |-> U1, ts |-> <<"1">>, text |-> t]

\* the imports of one message whose text is made of up to MaxParts parts
TextScenarios ==
    {Scenario(TRUE, RootOk, <<MemberAl>>, LayoutHere(<<MsgOfText(Concat(parts))>>)) :
        parts \in SeqsUpTo(TextParts, MaxParts)}

\* users.json: the names of U1 and U2 differ, are the same, or U1 has none
UsersDup == <<[id |-> U1, display_name |-> al, real_name |-> <<"A">>],
              [id |-> U2, display_name |-> al, real_name |-> bo]>>
UsersBlank == <<[id |-> U1, display_name |-> <<>>, real_name |-> <<>>],
                [id |-> U2, display_name |-> <<>>, real_name |-> bo]>>
UsersFiles == {OkFile(UsersJson), OkFile(UsersDup), OkFile(UsersBlank)}

\* entries of slack2discord_users.json: with a slack id; with a slack name
\* alone; without a discord id; with a handle no member has; naming nobody
EntryId == [slack |-> [id |-> U1, name |-> al],
            discord |-> [name |-> al, id |-> <<"0", "0", "0", "1">>]]
EntryName == [slack |-> [name |-> al],
              discord |-> [name |-> al, id |-> <<"0", "0", "0", "1">>]]
EntryNameNoDiscordId == [slack |-> [name |-> bo], discord |-> [name |-> bo]]
EntryIdNoDiscordId == [slack |-> [id |-> U2], discord |-> [name |-> bo]]
EntryAway == [slack |-> [id |-> U1], discord |-> [name |-> <<"z">>, id |-> <<>>]]
EntryNobody == [slack |-> [name |-> <<"z">>], discord |-> [name |-> <<"z">>, id |-> <<>>]]
Entries == {EntryId, EntryName, EntryNameNoDiscordId, EntryIdNoDiscordId, EntryAway,
            EntryNobody}

\* a message whose text is the mention token of a user
MentionToken(uid) == <<"<", "@">> \o uid \o <<">">>
MsgMention(uid) == [user |-> U1, ts |-> <<"1">>, text |-> MentionToken(uid)]

\* the imports of one message that mentions a user, for the ways the user can
\* be named, mapped and present at the destination
MentionScenarios ==
    {Scenario(TRUE, [RootOk EXCEPT !.users = u, !.slack2discord_users = OkFile(map)],
              members, LayoutHere(<<MsgMention(uid)>>)) :
        u \in UsersFiles, map \in SeqsUpTo(Entries, 1),
        members \in {<<>>, <<MemberAl>>, <<MemberBo, MemberAl>>}, uid \in {U1, U2}}

\* the imports that load an identity-mapping file of up to MaxEntries entries
MappingScenarios ==
    {Scenario(TRUE, [users |-> u, slack2discord_users |-> OkFile(map),
                     channels |-> OkFile(ChannelsJson), writable |-> w],
              <<MemberAl>>, LayoutHere(<<MsgMention(U1)>>)) :
        u \in UsersFiles \cup {BadFile("missing")},
        map \in SeqsUpTo(Entries, MaxEntries), w \in BOOLEAN}

\* the ways a root file can be: loaded, absent from slack_dir, not to be
\* opened, or no JSON
CatalogFiles(json) ==
    {OkFile(json), BadFile("missing"), BadFile("oserror"), BadFile("malformed")}

\* a message without author whose text mentions a user and a channel
TextRefs == MentionToken(U1) \o <<"<", "#", "C", "1", "|", "d", ">">>
MsgAnon == [ts |-> <<"1">>, text |-> TextRefs]

\* the imports of one message for every way the three root files can be
CatalogScenarios ==
    {Scenario(TRUE, [users |-> u, slack2discord_users |-> m, channels |-> ch,
                     writable |-> TRUE],
              <<MemberAl>>, LayoutHere(<<msg>>)) :
        u \in CatalogFiles(UsersJson), m \in CatalogFiles(MapJson),
        ch \in CatalogFiles(ChannelsJson), msg \in {MsgText, MsgAnon, MsgFiles}}

\* a file whose download raises, and messages that carry it
FileGone == [name |-> <<"x">>, filetype |-> <<"p", "d", "f">>,
             mimetype |-> <<"a", "/", "p">>, title |-> <<"x">>,
             url_private |-> <<"w">>, fetch |-> "exception"]
MsgGone == [user |-> U1, ts |-> <<"2">>, text |-> TextHi, files |-> <<FileGone, FilePdf>>]
\* a message whose text holds a link and whose file is an image
MsgLinkImage == [user |-> U1, ts |-> <<"3">>, text |-> TextLink, files |-> <<FilePng>>]

\* the imports of up to MaxMsgs of these messages
AttachmentScenarios ==
    {Scenario(version2, RootOk, <<MemberAl>>, LayoutHere(ms)) :
        version2 \in BOOLEAN,
        ms \in SeqsUpTo({MsgGone, MsgLinkImage, MsgFiles}, MaxMsgs)}

\* paths of an export on disk
PathC == <<"c">>
PathCA == <<"c", "/", "a">>
PathCB == <<"c", "/", "b">>
PathCZ == <<"c", "/", "z">>
PathCA1 == PathCA \o <<"/", "1">> \o S_json
S_txt == <<"n", ".", "t", "x", "t">>

\* disks: an export with root files and two channel directories, one of
\* them without .json file; an export whose only subdirectory holds no
\* .json file; an export without subdirectory; a channel directory under a
\* directory without root files
DiskFull == (PathC :> <<S_users \o S_json, <<"a">>, S_channels \o S_json, <<"b">>,
                        S_slack2discord_users \o S_json>>)
              @@ (PathCA :> <<S_txt, <<"1">> \o S_json>>) @@ (PathCB :> <<S_txt>>)
DiskBare == (PathC :> <<S_users \o S_json, <<"b">>>>) @@ (PathCB :> <<S_txt>>)
DiskFlat == (PathC :> <<S_users \o S_json>>)
DiskNoRoot == (PathC :> <<<<"a">>>>) @@ (PathCA :> <<<<"1">> \o S_json>>)
Disks == {DiskFull, DiskBare, DiskFlat, DiskNoRoot}

\* the contents of the files of the disks
DiskFiles ==
    (join(PathC, S_users \o S_json) :> OkFile(UsersJson))
      @@ (join(PathC, S_channels \o S_json) :> OkFile(ChannelsJson))
      @@ (join(PathC, S_slack2discord_users \o S_json) :> OkFile(MapJson))
      @@ (PathCA1 :> OkFile(<<MsgText, MsgThread>>))

\* the user's answers to the queries: yes to all, or no
Answers == {[i \in 1..5 |-> TRUE], <<>>}

\* the commands given a path of a disk
CommandScenarios ==
    {[v2 |-> TRUE, root |-> [RootOk EXCEPT !.users = BadFile("missing"),
                                           !.slack2discord_users = BadFile("missing"),
                                           !.channels = BadFile("missing")],
      members |-> <<MemberAl>>, logs |-> DiskFiles, dirs |-> disk, pc |-> "given",
      commands |-> 1,
      input |-> [command |-> command, path |-> path, answers |-> answers,
                 match_channel |-> command # "import_here",
                 slack_dir |-> "None", history |-> <<>>]] :
        disk \in Disks, path \in {PathC, PathCA, PathCB, PathCZ, PathCA1},
        command \in {"import_all", "import_path", "import_here"},
        answers \in Answers}

Scenarios ==
    ImportScenarios \cup TextScenarios \cup MentionScenarios \cup MappingScenarios
      \cup CatalogScenarios \cup AttachmentScenarios \cup CommandScenarios

\* the same import given by every command of Commands at the same time
ConcurrentScenarios ==
    {[Scenario(version2, RootOk, <<MemberAl>>, LayoutHere(ms))
         EXCEPT !.commands = MaxCommands] :
        version2 \in BOOLEAN, ms \in {<<MsgText>>, <<MsgThread>>}}

\* the state before the commands are given
InitFrom(sc) ==
    /\ v2 = sc.v2
    /\ dirs = sc.dirs
    /\ root = sc.root
    /\ mapfile_opens = 0
    /\ logs = sc.logs
    /\ guild = Guild(sc.members)
    /\ sent = <<>>
    /\ inflight = {}
    /\ messages = <<>>
    /\ input = [c \in 1..sc.commands |-> sc.input]
    /\ cmd = [c \in 1..sc.commands |->
                [pc |-> sc.pc, exc |-> "", ctx |-> channel_handle(<<"d">>),
                 ci |-> 1, fq |-> <<>>, fi |-> 1, mi |-> 1]]
    /\ cat = [c \in 1..sc.commands |-> NoCat]
    /\ threads = [c \in 1..sc.commands |-> <<>>]
    /\ loc = [c \in 1..sc.commands |-> NoLoc]

Init == \E sc \in Scenarios \cup ConcurrentScenarios : InitFrom(sc)

Spec == Init /\ [][Next]_vars

\* ------------------------------------------------------------------------
\* What the claims speak of
\* ------------------------------------------------------------------------
\* the source message of a delivery
source(s) == log_file(s.src[1]).json[s.src[2]]

\* the thread key a message bears, or None
thread_key(message) ==
    IF "thread_ts" \in DOMAIN message THEN message.thread_ts ELSE NoneStr

\* deliveries i and j were made by the same channel import
same_import(i, j) == sent[i].cmd = sent[j].cmd /\ sent[i].ci = sent[j].ci

\* the first delivery of the channel import of delivery j that bears its key
first_bearing(j) ==
    Min({i \in 1..j : /\ same_import(i, j)
                      /\ thread_key(source(sent[i])) = thread_key(source(sent[j]))})

\* the thread created from delivery i
thread_of(i) == [kind |-> "thread", id |-> i]

\* command c awaits the creation of the thread of its delivery j
creating(c, j) ==
    /\ cmd[c].pc = "await_create_thread"
    /\ \E call \in inflight :
          call.cmd = c /\ call.op = "create_thread" /\ call.message.id = j

\* the positions at which import_files is busy with a message it parsed
Busy == {"split", "tail", "parsed", "await_send", "await_create_thread", "await_archive"}

\* ------------------------------------------------------------------------
\* C1
\* ------------------------------------------------------------------------
\* C1: in one channel import, once a message bearing thread key T was
\* delivered, T has its anchor stored before a later message bearing T is
\* processed, and every later delivery bearing T references the anchor: in
\* emulation mode its send carries the first delivery as reply reference, in
\* native mode it is sent into the thread created from the first delivery,
\* whatever the payload is made of.
C1_RepliesReferenceAnchor ==
    /\ \A j \in 1..Len(sent) :
         TruthyStr(thread_key(source(sent[j]))) /\ first_bearing(j) < j =>
            IF v2 THEN sent[j].ctx = thread_of(first_bearing(j))
            ELSE sent[j].reference = message_handle(first_bearing(j))
    /\ \A c \in DOMAIN cmd :
         cmd[c].pc \in {"parsed", "await_send"}
         /\ TruthyStr(thread_key(cur_message(c)))
         /\ (\E i \in 1..Len(sent) :
               /\ sent[i].cmd = c /\ sent[i].ci = cmd[c].ci
               /\ thread_key(source(sent[i])) = thread_key(cur_message(c)))
         => DHas(threads[c], thread_key(cur_message(c)))

\* ------------------------------------------------------------------------
\* C2
\* ------------------------------------------------------------------------
\* the resolution of three tiers: the member of the mapped handle, else the
\* member of the display name, else the plain name
three_tiers(members, users, slack2discord_uids, uid) ==
    IF /\ TruthyDict(slack2discord_uids) /\ DHas(slack2discord_uids, uid)
       /\ get_member_named(members, DGet(slack2discord_uids, uid)) # NoneH
    THEN mention(get_member_named(members, DGet(slack2discord_uids, uid)))
    ELSE IF get_member_named(members, DGet(users, uid)) # NoneH
    THEN mention(get_member_named(members, DGet(users, uid)))
    ELSE <<"@">> \o DGet(users, uid)

\* the resolution in which the display name is looked up only for a user
\* that has no mapping entry
mapped_else_named(members, users, slack2discord_uids, uid) ==
    IF TruthyDict(slack2discord_uids) /\ DHas(slack2discord_uids, uid)
    THEN IF get_member_named(members, DGet(slack2discord_uids, uid)) # NoneH
         THEN mention(get_member_named(members, DGet(slack2discord_uids, uid)))
         ELSE <<"@">> \o DGet(users, uid)
    ELSE IF get_member_named(members, DGet(users, uid)) # NoneH
    THEN mention(get_member_named(members, DGet(users, uid)))
    ELSE <<"@">> \o DGet(users, uid)

\* command c has just parsed a message whose text is the mention token of
\* user uid of the user catalog
parsed_mention(c, uid) ==
    /\ at(c, "tail")
    /\ TruthyDict(cat[c].users) /\ DHas(cat[c].users, uid)
    /\ "text" \in DOMAIN cur_message(c)
    /\ cur_message(c).text = MentionToken(uid)

\* the text of the message command c has just parsed, when its mention
\* token became new_str
mention_became(c, new_str) ==
    X(loc[c].msg) = header(parse_timestamp(cur_message(c)), loc[c].username, new_str)

\* C2 as stated: a mention token of a user of the user catalog (who has a
\* display name) is resolved by three tiers in order: the member matching
\* the mapped handle, else the member matching the display name, else the
\* plain text @displayName.
C2_ThreeTiers ==
    \A c \in DOMAIN cmd : \A uid \in {U1, U2} :
       parsed_mention(c, uid) /\ TruthyStr(DGet(cat[c].users, uid)) =>
          mention_became(c, three_tiers(guild.members, cat[c].users,
                                        cat[c].slack2discord_uids, uid))

\* C2 amended: for a user with a non-empty display name, a mapped user
\* resolves to the member matching the mapped handle, else to @displayName;
\* only a user without mapping entry is looked up by display name.
C2_MappedElseNamed ==
    \A c \in DOMAIN cmd : \A uid \in {U1, U2} :
       parsed_mention(c, uid) /\ TruthyStr(DGet(cat[c].users, uid)) =>
          mention_became(c, mapped_else_named(guild.members, cat[c].users,
                                              cat[c].slack2discord_uids, uid))

\* a mapped user whose handle no member has, while a member has the display
\* name: the token became the plain name
C2_Witness ==
    \E c \in DOMAIN cmd :
       /\ parsed_mention(c, U1)
       /\ DHas(cat[c].slack2discord_uids, U1)
       /\ get_member_named(guild.members, DGet(cat[c].slack2discord_uids, U1)) = NoneH
       /\ get_member_named(guild.members, DGet(cat[c].users, U1)) # NoneH
       /\ mention_became(c, <<"@">> \o DGet(cat[c].users, U1))

\* ------------------------------------------------------------------------
\* C3
\* ------------------------------------------------------------------------
\* C3: a payload parse_message returns for a message without text and with
\* at least one retrievable file has the synthesized header as its text, so
\* no payload has attachments and no text; also when a file is an image.
C3_AttachmentsHaveHeader ==
    \A c \in DOMAIN cmd :
       /\ at(c, "parsed")
       /\ ~("text" \in DOMAIN cur_message(c) /\ TruthyStr(cur_message(c).text))
       /\ TruthyList(loc[c].files)
       => X(loc[c].msg) = header(parse_timestamp(cur_message(c)), loc[c].username,
                                 S_Attachments)

\* ------------------------------------------------------------------------
\* C4 and C5
\* ------------------------------------------------------------------------
\* the length of the string of a sequence of runs
RECURSIVE ZLen(_)
ZLen(z) == IF z = <<>> THEN 0 ELSE z[1][2] + ZLen(SubSeq(z, 2, Len(z)))

\* the runs of the concatenation of two strings given by their runs
ZCat(y, z) ==
    IF y = <<>> THEN z
    ELSE IF z = <<>> THEN y
    ELSE IF y[Len(y)][1] = z[1][1]
    THEN SubSeq(y, 1, Len(y) - 1) \o << <<z[1][1], y[Len(y)][2] + z[1][2]>> >>
           \o SubSeq(z, 2, Len(z))
    ELSE y \o z

\* the runs of the concatenation of the descriptions of blocks, in order
RECURSIVE descriptions(_)
descriptions(blocks) ==
    IF blocks = <<>> THEN <<>>
    ELSE ZCat(descriptions(SubSeq(blocks, 1, Len(blocks) - 1)),
              blocks[Len(blocks)].description)

\* the remainder of the text in the splitting loop (None once it is over)
remainder(c) == IF loc[c].msg = Z(NoneStr) THEN <<>> ELSE loc[c].msg

\* C4: the descriptions of the text blocks of a demoted text, concatenated in
\* the order they were produced, are the hyperlink-rewritten text: in the
\* splitting loop together with the remainder still to split, and exactly
\* once the loop is over.
C4_BlocksReconstructText ==
    \A c \in DOMAIN cmd :
       /\ at(c, "split") =>
            ZCat(descriptions(text_blocks(loc[c].embeds)), remainder(c))
               = loc[c].msg_hyperlinked
       /\ cmd[c].pc \in Busy \ {"split"} /\ text_blocks(loc[c].embeds) # <<>> =>
            descriptions(text_blocks(loc[c].embeds)) = loc[c].msg_hyperlinked

\* a text longer than a block was split at a newline into two blocks
C4_Witness ==
    \E c \in DOMAIN cmd :
       /\ at(c, "tail")
       /\ Len(text_blocks(loc[c].embeds)) = 2
       /\ ZLen(loc[c].msg_hyperlinked) > MAX_EMBED_CHARACTERS
       /\ ZLen(text_blocks(loc[c].embeds)[1].description) < MAX_EMBED_CHARACTERS
       /\ text_blocks(loc[c].embeds)[2].description[1][1] = "\n"
       /\ descriptions(text_blocks(loc[c].embeds)) = loc[c].msg_hyperlinked

\* C5: every text block parse_message produces has at most
\* MAX_EMBED_CHARACTERS characters.
C5_BlocksWithinCeiling ==
    \A c \in DOMAIN cmd :
       \A k \in 1..Len(text_blocks(loc[c].embeds)) :
          ZLen(text_blocks(loc[c].embeds)[k].description) <= MAX_EMBED_CHARACTERS

\* ------------------------------------------------------------------------
\* C6 and C7
\* ------------------------------------------------------------------------
\* command c loads the catalogs in this step, from an identity-mapping file
\* that is a JSON array and can be written
loads_mapping(c) ==
    /\ at(c, "load") /\ cmd'[c].pc # "load"
    /\ root.slack2discord_users.status = "ok" /\ root.writable

\* entry i of the identity-mapping file supplies a slack name and no slack id
name_only(i) ==
    /\ "id" \notin DOMAIN root.slack2discord_users.json[i].slack
    /\ "name" \in DOMAIN root.slack2discord_users.json[i].slack

\* the ids of the users of the user catalog whose display name entry i gives
matches(i) ==
    IF get_display_names(root.users) = NoneDict THEN {}
    ELSE {u[1] : u \in {get_display_names(root.users)[k] :
                          k \in possible_slack_ids(get_display_names(root.users),
                                   root.slack2discord_users.json[i].slack.name)}}

\* C6: an entry that supplies only a slack name is backfilled with the slack
\* id, contributes a mapping of that id and marks the table dirty (so that it
\* is written) if and only if exactly one user of the user catalog has that
\* display name; else the entry is left as it was.
C6_BackfillIffOneMatch ==
    [][\A c \in DOMAIN cmd :
         loads_mapping(c) =>
            \A i \in 1..Len(root.slack2discord_users.json) :
               name_only(i) =>
                  IF Cardinality(matches(i)) = 1
                  THEN /\ "id" \in DOMAIN root'.slack2discord_users.json[i].slack
                       /\ root'.slack2discord_users.json[i].slack.id \in matches(i)
                       /\ TruthyDict(cat'[c].slack2discord_uids)
                       /\ \E u \in matches(i) : DHas(cat'[c].slack2discord_uids, u)
                       /\ mapfile_opens' = mapfile_opens + 1
                  ELSE root'.slack2discord_users.json[i] = root.slack2discord_users.json[i]
      ]_vars

\* the loop over the entries of the identity-mapping file, as the load runs it
mapping_pass ==
    mapping_loop(root.slack2discord_users.json, get_display_names(root.users), 1, <<>>,
                 FALSE)

\* C7: a load rewrites the identity-mapping file if and only if it backfilled
\* the id of at least one entry: a load that backfills nothing does not open
\* the file for writing, a load that backfills an entry persists the table
\* with the ids filled in, whatever the other entries contain.
C7_RewrittenIffBackfilled ==
    [][\A c \in DOMAIN cmd :
         loads_mapping(c) =>
            IF mapping_pass.dirty
            THEN /\ mapfile_opens' = mapfile_opens + 1
                 /\ root'.slack2discord_users.json = mapping_pass.json
            ELSE /\ mapfile_opens' = mapfile_opens
                 /\ root'.slack2discord_users = root.slack2discord_users
      ]_vars

\* ------------------------------------------------------------------------
\* C8
\* ------------------------------------------------------------------------
\* a message of a discarded subtype
discarded(message) ==
    "subtype" \in DOMAIN message /\ message.subtype \in {"channel_join", "bot_message"}

\* C8: for a message of subtype channel_join or bot_message parse_message
\* returns null, whatever its other fields: the import is never busy with
\* such a message, no delivery has one as its source, and every receipt and
\* every thread entry is of a delivery of another message.
C8_DiscardedSubtypes ==
    /\ \A c \in DOMAIN cmd : cmd[c].pc \in Busy => ~discarded(cur_message(c))
    /\ \A j \in 1..Len(sent) : ~discarded(source(sent[j]))
    /\ inflight # {} => \E c \in DOMAIN cmd : cmd[c].pc \in Busy
    /\ \A k \in 1..Len(messages) : messages[k][2].id \in 1..Len(sent)
    /\ \A c \in DOMAIN cmd : \A k \in 1..Len(threads[c]) :
          /\ threads[c][k][2].id \in 1..Len(sent)
          /\ threads[c][k][1] = thread_key(source(sent[threads[c][k][2].id]))

\* a bot message that has a text and a thread key was parsed and passed
\* over, and the message after it was delivered
C8_Witness ==
    \E c \in DOMAIN cmd :
       /\ at(c, "open") /\ cmd[c].fi = 2
       /\ Len(log_file(cmd[c].fq[1]).json) = 2
       /\ log_file(cmd[c].fq[1]).json[1] = MsgBot
       /\ Len(sent) = 1 /\ sent[1].src = <<cmd[c].fq[1], 2>>
       /\ TruthyStr(thread_key(source(sent[1])))
       /\ Len(threads[c]) = 1

\* ------------------------------------------------------------------------
\* C9
\* ------------------------------------------------------------------------
\* a file of a message that parse_files can retrieve
retrievable(file) == "url_private" \in DOMAIN file /\ file.fetch # "exception"

\* the translation of a message by command c is a payload: the message is
\* of no discarded subtype, has a text or a retrievable file, and its
\* translation raises nothing
translated(c, message) ==
    /\ ~discarded(message)
    /\ \/ "text" \in DOMAIN message /\ TruthyStr(message.text)
       \/ "files" \in DOMAIN message
          /\ \E k \in 1..Len(message.files) : retrievable(message.files[k])
    /\ ~("user" \in DOMAIN message /\ cat[c].slack2discord_uids = NoneDict)
    /\ "files" \in DOMAIN message =>
          \A k \in 1..Len(message.files) :
             "url_private" \in DOMAIN message.files[k] => retrievable(message.files[k])

\* the translation of a message ends in a download that raises, which makes
\* import_files leave the log file
download_fails(message) ==
    /\ ~discarded(message)
    /\ "files" \in DOMAIN message
    /\ \E k \in 1..Len(message.files) :
          "url_private" \in DOMAIN message.files[k] /\ ~retrievable(message.files[k])

\* the messages of the file at path that command c translates, in file order
RECURSIVE file_deliveries(_, _, _)
file_deliveries(c, path, mi) ==
    IF log_file(path).status # "ok" \/ mi > Len(log_file(path).json) THEN <<>>
    ELSE IF download_fails(log_file(path).json[mi]) THEN <<>>
    ELSE (IF translated(c, log_file(path).json[mi]) THEN << <<path, mi>> >> ELSE <<>>)
           \o file_deliveries(c, path, mi + 1)

\* the same over the files fq, in their order
RECURSIVE files_deliveries(_, _)
files_deliveries(c, fq) ==
    IF fq = <<>> THEN <<>>
    ELSE file_deliveries(c, fq[1], 1) \o files_deliveries(c, SubSeq(fq, 2, Len(fq)))

\* the deliveries channel import ci of command c is to make
due(c, ci) == files_deliveries(c, sorted(input[c].history[ci][2]))

\* the sources of the deliveries channel import ci of command c has made
RECURSIVE made(_, _, _)
made(c, ci, j) ==
    IF j > Len(sent) THEN <<>>
    ELSE (IF sent[j].cmd = c /\ sent[j].ci = ci THEN <<sent[j].src>> ELSE <<>>)
           \o made(c, ci, j + 1)

\* channel import ci of command c is over: import_files returned, or an
\* exception ended it (fq holds the files of the import_files that runs)
import_over(c, ci) ==
    \/ ci < cmd[c].ci
    \/ ci = cmd[c].ci /\ cmd[c].pc = "crashed" /\ cmd[c].fq # <<>>

\* C9: the deliveries of a channel import are, in order, the translated
\* messages of its files in sorted-filename order and file order: at any
\* time those made are the first of those due, once the import is over each
\* was made exactly once, and no call is made while another is awaited.
C9_DeliveriesInOrder ==
    /\ \A c \in DOMAIN cmd : \A ci \in 1..Len(input[c].history) :
          /\ Len(made(c, ci, 1)) <= Len(due(c, ci))
          /\ made(c, ci, 1) = SubSeq(due(c, ci), 1, Len(made(c, ci, 1)))
          /\ import_over(c, ci) => made(c, ci, 1) = due(c, ci)
    /\ \A c \in DOMAIN cmd : Cardinality({call \in inflight : call.cmd = c}) <= 1

\* ------------------------------------------------------------------------
\* C10
\* ------------------------------------------------------------------------
\* the anchor stored for the key of delivery i: the delivery itself in
\* emulation mode, the thread created from it in native mode
anchor_of(i) == IF v2 THEN thread_of(i) ELSE message_handle(i)

\* the ThreadState that the deliveries j.. of the running channel import of
\* command c make of ThreadState ts: an entry for each key when it is first
\* borne, save the key whose thread command c is creating
RECURSIVE thread_state(_, _, _)
thread_state(c, ts, j) ==
    IF j > Len(sent) THEN ts
    ELSE IF /\ sent[j].cmd = c /\ sent[j].ci = cmd[c].ci
            /\ TruthyStr(thread_key(source(sent[j])))
            /\ ~DHas(ts, thread_key(source(sent[j])))
            /\ ~creating(c, j)
    THEN thread_state(c, DSet(ts, thread_key(source(sent[j])), anchor_of(j)), j + 1)
    ELSE thread_state(c, ts, j + 1)

\* C10: throughout a channel import ThreadState holds an entry for exactly
\* the thread keys borne by the messages delivered so far (in native mode
\* once the thread is created), each entry being the anchor of the first
\* delivery bearing the key: a delivery without thread_ts adds none, and no
\* entry is removed or overwritten.
C10_ThreadStateOfDeliveries ==
    \A c \in DOMAIN cmd :
       cmd[c].pc \in Busy \cup {"open", "parse", "crashed"} /\ cmd[c].fq # <<>> =>
          threads[c] = thread_state(c, <<>>, 1)

\* a channel import delivered two messages bearing the same key:
\* ThreadState holds the one entry of the key, the anchor of the first
C10_Witness ==
    \E c \in DOMAIN cmd :
       /\ at(c, "parse") /\ Len(sent) = 2
       /\ \A j \in 1..2 : sent[j].cmd = c /\ sent[j].ci = cmd[c].ci
       /\ thread_key(source(sent[1])) = T1 /\ thread_key(source(sent[2])) = T1
       /\ threads[c] = << <<T1, anchor_of(1)>> >>

\* ------------------------------------------------------------------------
\* C11 and C12
\* ------------------------------------------------------------------------
\* command c is past parse_important_files
loaded(c) ==
    /\ cmd[c].pc \notin {"given", "idle", "aborted", "precreate", "load"}
    /\ ~(cmd[c].pc = "crashed" /\ cmd[c].exc = "OSError")

\* C11: each of the three loaders, given a catalog file that exists and is
\* no valid JSON, returns a null or empty catalog and raises nothing: once the
\* catalogs are loaded the catalog of a malformed file holds nothing, and the
\* command was not ended by an exception of the loader.
C11_MalformedCatalogIsAbsent ==
    \A c \in DOMAIN cmd :
       loaded(c) =>
          /\ root.users.status = "malformed" => ~TruthyDict(cat[c].users)
          /\ root.channels.status = "malformed" => ~TruthyDict(cat[c].channels)
          /\ root.slack2discord_users.status = "malformed" =>
                /\ ~TruthyDict(cat[c].slack2discord_uids)
                /\ ~(cmd[c].pc = "crashed" /\ cmd[c].exc = "UnboundLocalError")

\* a message that has a text or a retrievable file and no discarded subtype
bears_content(message) ==
    /\ ~discarded(message)
    /\ \/ "text" \in DOMAIN message /\ TruthyStr(message.text)
       \/ "files" \in DOMAIN message
          /\ \E k \in 1..Len(message.files) : retrievable(message.files[k])

\* command c was ended by an exception that a null catalog raised: the
\* lookup of the author in a null identity mapping, or the search of a null
\* user catalog for the name of a mapping entry
null_catalog_raised(c) ==
    /\ cmd[c].pc = "crashed"
    /\ \/ cmd[c].exc = "AttributeError"
       \/ /\ cmd[c].exc = "TypeError" /\ cmd[c].fq # <<>>
          /\ cat[c].slack2discord_uids = NoneDict
          /\ "user" \in DOMAIN cur_message(c)

\* the sources of the deliveries of command c
sources_made(c) == {sent[j].src : j \in {i \in 1..Len(sent) : sent[i].cmd = c}}

\* C12: when a catalog file is absent the import does not abort: no null
\* catalog ends the command by an exception, and when the command is done
\* every message of its log files that has a text or a retrievable file was
\* delivered.
C12_MissingCatalogDegrades ==
    \A c \in DOMAIN cmd :
       (\E f \in {root.users, root.slack2discord_users, root.channels} :
           f.status = "missing") =>
          /\ ~null_catalog_raised(c)
          /\ cmd[c].pc = "done" =>
                \A ci \in 1..Len(input[c].history) :
                   \A k \in 1..Len(input[c].history[ci][2]) :
                      LET path == input[c].history[ci][2][k]
                      IN  \A mi \in 1..Len(log_file(path).json) :
                             bears_content(log_file(path).json[mi])
                                => <<path, mi>> \in sources_made(c)

\* ------------------------------------------------------------------------
\* C13, C14 and C15
\* ------------------------------------------------------------------------
\* C13: no entry of the DeliveryReceipt mapping is ever overwritten: an id
\* that maps to a destination message maps to the same message after every
\* step.
C13_ReceiptsNeverOverwritten ==
    [][\A k \in 1..Len(messages) :
          /\ DHas(messages', messages[k][1])
          /\ DGet(messages', messages[k][1]) = messages[k][2]]_vars

\* command c is at the start of a channel import: import_files was called
\* and is about to open its first file
import_starts(c) == at(c, "open") /\ cmd[c].fi = 1

\* C14: at the start of every channel import the ThreadState map and the
\* DeliveryReceipt map are empty.
C14_MapsEmptyAtImportStart ==
    \A c \in DOMAIN cmd :
       import_starts(c) => threads[c] = <<>> /\ messages = <<>>

\* C15: every send of send_message is followed by the throttle pause,
\* whatever the payload is made of.
C15_EverySendThrottled ==
    \A j \in 1..Len(sent) : sent[j].throttled

\* ------------------------------------------------------------------------
\* C16, C17 and C18
\* ------------------------------------------------------------------------
\* C16: no send call of send_message carries more rich blocks than
\* MAX_EMBEDS.
C16_CallsWithinMaxEmbeds ==
    \A j \in 1..Len(sent) :
       sent[j].embeds # NoneList => Len(sent[j].embeds) <= MAX_EMBEDS(v2)

\* the channel that channel import ci of command c delivers to
import_ctx(c, ci) ==
    IF input[c].match_channel THEN channel_handle(input[c].history[ci][1])
    ELSE channel_handle(<<"d">>)

\* deliveries of thread openers go to the channel itself, without a reply
\* reference
openers_to_channel ==
    \A j \in 1..Len(sent) :
       TruthyStr(thread_key(source(sent[j]))) /\ first_bearing(j) = j =>
          /\ sent[j].ctx = import_ctx(sent[j].cmd, sent[j].ci)
          /\ sent[j].reference = NoneH

\* after the delivery of an opener ThreadState maps its key to its anchor
openers_anchored ==
    \A c \in DOMAIN cmd : \A j \in 1..Len(sent) :
       /\ sent[j].cmd = c /\ sent[j].ci = cmd[c].ci /\ cmd[c].fq # <<>>
       /\ TruthyStr(thread_key(source(sent[j]))) /\ first_bearing(j) = j
       /\ ~creating(c, j)
       => /\ DHas(threads[c], thread_key(source(sent[j])))
          /\ DGet(threads[c], thread_key(source(sent[j]))) = anchor_of(j)

\* C17: a message bearing a thread key that is not in ThreadState is
\* delivered as a thread opener: its payload is not left undelivered by an
\* exception, its delivery goes to the channel itself without a reply
\* reference, and afterwards ThreadState maps the key to the message
\* (emulation mode) or to the thread created from it (native mode).
C17_OrphanOpensThread ==
    /\ openers_to_channel
    /\ openers_anchored
    /\ \A c \in DOMAIN cmd :
          ~(/\ at(c, "crashed") /\ TruthyStr(loc[c].thread_ts)
            /\ ~DHas(threads[c], loc[c].thread_ts))

\* the filenames of the files of a message that can be retrieved, in order
RECURSIVE retrieved(_)
retrieved(fs) ==
    IF fs = <<>> THEN <<>>
    ELSE (IF retrievable(fs[1]) THEN <<file_filename(fs[1])>> ELSE <<>>)
           \o retrieved(SubSeq(fs, 2, Len(fs)))

\* the filenames of the attachments of a delivery
attached(s) ==
    IF s.files = NoneList THEN <<>> ELSE [k \in 1..Len(s.files) |-> s.files[k].filename]

\* C18: a file that cannot be retrieved is skipped and aborts neither the
\* message nor the run: a delivery carries the retrievable files of its
\* message, and a command that is done has delivered every message that has
\* a text or a retrievable file.
C18_UnretrievableFileSkipped ==
    /\ \A j \in 1..Len(sent) :
          "files" \in DOMAIN source(sent[j]) =>
             attached(sent[j]) = retrieved(source(sent[j]).files)
    /\ \A c \in DOMAIN cmd :
          cmd[c].pc = "done" =>
             \A ci \in 1..Len(input[c].history) :
                \A k \in 1..Len(input[c].history[ci][2]) :
                   LET path == input[c].history[ci][2][k]
                   IN  \A mi \in 1..Len(log_file(path).json) :
                          bears_content(log_file(path).json[mi])
                             => <<path, mi>> \in sources_made(c)

\* ------------------------------------------------------------------------
\* C19
\* ------------------------------------------------------------------------
\* channel import ci of command c returned
import_returned(c, ci) ==
    /\ loaded(c) /\ ~(cmd[c].pc = "crashed" /\ cmd[c].fq = <<>>)
    /\ ci < cmd[c].ci

\* C19: a log file that cannot be opened or is no valid JSON has none of
\* its messages sent and stops nothing but itself: no delivery has such a
\* file as its source, no exception that ends the command comes from it, and
\* a channel import that returned has delivered the messages of all its
\* other files, in sorted-filename order, as has every later channel import.
C19_BadLogFileConfined ==
    /\ \A j \in 1..Len(sent) : log_file(sent[j].src[1]).status = "ok"
    /\ \A c \in DOMAIN cmd :
          cmd[c].pc = "crashed" /\ cmd[c].fq # <<>> =>
             /\ cmd[c].fi <= Len(cmd[c].fq)
             /\ log_file(cmd[c].fq[cmd[c].fi]).status = "ok"
    /\ \A c \in DOMAIN cmd : \A ci \in 1..Len(input[c].history) :
          import_returned(c, ci) => made(c, ci, 1) = due(c, ci)

\* the command is done with a channel whose first file in sorted order is
\* no JSON: the messages of the two files after it were delivered
C19_Witness ==
    \E c \in DOMAIN cmd :
       /\ at(c, "done") /\ Len(input[c].history) = 1 /\ Len(sent) = 2
       /\ sent[1].src[1] # sent[2].src[1]
       /\ \E k \in 1..Len(input[c].history[1][2]) :
             /\ log_file(input[c].history[1][2][k]).status = "malformed"
             /\ StrLess(input[c].history[1][2][k], sent[1].src[1])

\* ------------------------------------------------------------------------
\* C20
\* ------------------------------------------------------------------------
\* parse_slack_directory returned to command c
resolved(c) ==
    /\ "path" \in DOMAIN input[c]
    /\ cmd[c].pc # "given"
    /\ ~(cmd[c].pc = "crashed" /\ cmd[c].exc = "OSError")

\* C20: parse_slack_directory returns null whenever it found no .json log
\* file in any channel directory it enumerated: a slack_dir it returned
\* holds a channel with a log file.
C20_NullWithoutLogs ==
    \A c \in DOMAIN cmd :
       resolved(c) /\ input[c].slack_dir = "ok" =>
          \E ci \in 1..Len(input[c].history) : input[c].history[ci][2] # <<>>

\* ------------------------------------------------------------------------
\* C21
\* ------------------------------------------------------------------------
\* command c was given the path of a single .json log file in
\* single-channel mode, and parse_slack_directory returned a slack_dir
single_file(c) ==
    /\ resolved(c) /\ input[c].slack_dir = "ok"
    /\ input[c].command # "import_all"
    /\ isfile(dirs, input[c].path) /\ EndsWith(input[c].path, S_json)

\* C21: in single-channel mode, for a path that is a single .json log file,
\* the history holds one channel whose log set is exactly that file, the
\* import opens exactly that file, and once the command is done the
\* messages of the file that have a text or a retrievable file are delivered.
C21_SingleFileImported ==
    \A c \in DOMAIN cmd :
       single_file(c) =>
          /\ Len(input[c].history) = 1
          /\ input[c].history[1][2] = <<input[c].path>>
          /\ cmd[c].fq \in {<<>>, <<input[c].path>>}
          /\ cmd[c].pc = "done" =>
                \A mi \in 1..Len(log_file(input[c].path).json) :
                   bears_content(log_file(input[c].path).json[mi])
                      => <<input[c].path, mi>> \in sources_made(c)

\* ------------------------------------------------------------------------
\* C22
\* ------------------------------------------------------------------------
\* C22: every iteration of the splitting loop of parse_message that leaves
\* a remainder leaves one strictly shorter than the text it split.
C22_SplitShortens ==
    [][\A c \in DOMAIN cmd :
          at(c, "split") /\ loc'[c] # loc[c] /\ cmd'[c].pc = "split" =>
             ZLen(loc'[c].msg) < ZLen(loc[c].msg)]_vars

\* ------------------------------------------------------------------------
\* C23
\* ------------------------------------------------------------------------
\* the handle of an identity-mapping entry: name#id, or the name alone when
\* the entry has no discord id
handle_of(entry) ==
    IF "id" \in DOMAIN entry.discord /\ TruthyStr(entry.discord.id)
    THEN entry.discord.name \o <<"#">> \o entry.discord.id
    ELSE entry.discord.name

\* C23: get_slack2discord_user_mapping accepts an entry whose discord id is
\* absent: loading raises no KeyError, and once a file whose entries all
\* carry their slack id is loaded, every slack id maps to the handle of the
\* last entry that has it, name#id or the name alone.
C23_EntryWithoutDiscordId ==
    \A c \in DOMAIN cmd :
       /\ ~(cmd[c].pc = "crashed" /\ cmd[c].exc = "KeyError")
       /\ /\ loaded(c) /\ ~(cmd[c].pc = "crashed" /\ cmd[c].fq = <<>>)
          /\ root.slack2discord_users.status = "ok"
          => LET json == root.slack2discord_users.json
             IN  \A i \in 1..Len(json) :
                    /\ \A j \in 1..Len(json) : "id" \in DOMAIN json[j].slack
                    /\ \A j \in (i + 1)..Len(json) :
                          json[j].slack.id # json[i].slack.id
                    => /\ DHas(cat[c].slack2discord_uids, json[i].slack.id)
                       /\ DGet(cat[c].slack2discord_uids, json[i].slack.id)
                             = handle_of(json[i])

\* ------------------------------------------------------------------------
\* C24
\* ------------------------------------------------------------------------
\* command c is at a message of a log file: about to parse it, or crashed
\* while importing it
at_message(c) ==
    /\ cmd[c].pc \in {"parse", "crashed"}
    /\ cmd[c].fq # <<>> /\ cmd[c].fi \in 1..Len(cmd[c].fq)
    /\ cmd[c].mi \in 1..Len(log_file(cmd[c].fq[cmd[c].fi]).json)

\* the payload of the message command c is at has its author in loc
author_parsed(c) ==
    /\ cmd[c].pc \in {"split", "tail", "parsed"}
    /\ loc[c].username # NoneStr

\* C24: parse_user resolves the author of a message through the User Catalog
\* and the Identity Mapping: it raises for no message and no catalog state, a
\* message without author is rendered '<unknown user>', and only a user id
\* that neither the catalog nor the mapping knows is rendered
\* '<unknown user id>'.
C24_AuthorResolved ==
    \A c \in DOMAIN cmd :
       /\ at_message(c)
          => parse_user(guild.members, cur_message(c),
                        cat[c].slack2discord_uids).exc = ""
       /\ author_parsed(c) /\ "user" \notin DOMAIN cur_message(c)
          => loc[c].username = <<"@">> \o S_unknown_user
       /\ /\ author_parsed(c) /\ "user" \in DOMAIN cur_message(c)
          /\ loc[c].username
                = <<"@">> \o S_unknown_user_ \o cur_message(c).user \o <<">">>
          => /\ ~DHas(cat[c].users, cur_message(c).user)
             /\ ~DHas(cat[c].slack2discord_uids, cur_message(c).user)

\* ------------------------------------------------------------------------
\* C25
\* ------------------------------------------------------------------------
\* the text of delivery j starts with prefix
tagged(j, prefix) == OccursAt(X(sent[j].content), prefix, 1)

\* C25: in emulation mode the text of every delivery of a message bearing a
\* thread key starts with '[Thread OP] ' when it is the first of its key and
\* with '[Thread] ' when it is a later one, and no payload bearing a thread
\* key is left undelivered by an exception, whatever its shape; in native
\* mode no delivery is prefixed.
C25_ThreadTags ==
    /\ \A j \in 1..Len(sent) :
          TruthyStr(thread_key(source(sent[j]))) =>
             IF v2 THEN ~tagged(j, S_ThreadOP) /\ ~tagged(j, S_Thread)
             ELSE IF first_bearing(j) = j THEN tagged(j, S_ThreadOP)
             ELSE tagged(j, S_Thread)
    /\ \A c \in DOMAIN cmd :
          ~(at(c, "crashed") /\ TruthyStr(loc[c].thread_ts))

\* ------------------------------------------------------------------------
\* C26
\* ------------------------------------------------------------------------
\* the display text of the message command c is at, before its hyperlinks
\* are rewritten
display_text(c) ==
    Replace(unescape(parse_text(guild, cur_message(c),
                                parse_user(guild.members, cur_message(c),
                                           cat[c].slack2discord_uids).val,
                                cat[c].users, cat[c].slack2discord_uids,
                                cat[c].channels)),
            S_everyone_token, S_everyone)

\* the texts of the rich blocks of a list of embeds, one after the other
carried(embeds) ==
    Concat([k \in 1..Len(text_blocks(embeds)) |-> X(text_blocks(embeds)[k].description)])

\* the rich blocks of a list of embeds come after its other blocks
rich_last(embeds) ==
    embeds = NoneList \/
    \A i, j \in 1..Len(embeds) : i < j /\ embeds[i].type = "rich" => embeds[j].type = "rich"

\* command c has parsed, or is splitting, a message that has a text
text_parsed(c) ==
    /\ cmd[c].pc \in {"split", "tail", "parsed"}
    /\ "text" \in DOMAIN cur_message(c) /\ TruthyStr(cur_message(c).text)

\* the payload of a text msg whose rewritten text is hl, in l
text_kept(pc, l, msg, hl) ==
    IF msg = hl /\ Len(hl) <= MAX_CHARACTERS
    THEN pc # "split" /\ X(l.msg) = msg /\ text_blocks(l.embeds) = <<>>
    ELSE /\ rich_last(l.embeds)
         /\ IF pc = "split" THEN carried(l.embeds) \o X(l.msg) = hl
            ELSE /\ X(l.msg) = NoneStr
                 /\ text_blocks(l.embeds) # <<>>
                 /\ carried(l.embeds) = hl

\* C26: parse_message keeps a text as the plain text of the payload, with no
\* rich block made of it, if and only if rewriting its hyperlinks left it
\* unchanged and it has at most MAX_CHARACTERS characters; otherwise the
\* payload has no plain text and the rich blocks, which come after the image
\* blocks, carry the whole rewritten text (while the text is being split, the
\* blocks made so far and the remainder do).
C26_PlainOrDemoted ==
    \A c \in DOMAIN cmd :
       text_parsed(c) =>
          text_kept(cmd[c].pc, loc[c], display_text(c), hyperlink(display_text(c)))

\* a rewritten text was demoted into rich blocks after an image block
C26_Witness ==
    \E c \in DOMAIN cmd :
       /\ text_parsed(c) /\ cmd[c].pc = "tail"
       /\ display_text(c) # hyperlink(display_text(c))
       /\ TruthyList(loc[c].embeds)
       /\ \E i \in 1..Len(loc[c].embeds) : loc[c].embeds[i].type # "rich"
       /\ text_blocks(loc[c].embeds) # <<>>

\* ------------------------------------------------------------------------
\* C27
\* ------------------------------------------------------------------------
\* command c is inside import_files
importing(c) ==
    cmd[c].pc \in {"open", "parse", "split", "tail", "parsed", "await_send",
                   "await_create_thread", "await_archive"}

\* the command whose delivery the message or thread h comes from
writer(h) == sent[h.id].cmd

\* C27: the ThreadState and DeliveryReceipt mappings of an import traversal
\* are written by that traversal alone: while two commands are importing, the
\* receipts one of them uses hold no entry written by the other, and the
\* ThreadState of a command holds its own anchors only.
C27_MappingsOwned ==
    \A c \in DOMAIN cmd :
       /\ \A i \in 1..Len(threads[c]) : writer(threads[c][i][2]) = c
       /\ \A d \in DOMAIN cmd \ {c} :
             importing(c) /\ importing(d) =>
                \A i \in 1..Len(messages) : writer(messages[i][2]) # d

====
